---- MODULE Spec2Model ----
(***************************************************************************)
(* A model of the lineage graph engine of dwh-lineage-graph-generator:     *)
(* LineageGraph (src/lineage_graph.py), built once from a list of Node     *)
(* values and a list of Connection values and then queried.                *)
(*                                                                         *)
(* The NetworkX DiGraph the class wraps is modelled by its adjacency       *)
(* structure: the vertex set, the insertion-ordered successor and          *)
(* predecessor lists of every vertex, and one data slot per ordered pair   *)
(* of vertices (a DiGraph keeps one edge per ordered pair).                *)
(***************************************************************************)
EXTENDS Integers, Sequences, FiniteSets, TLC

\* ---------------------------------------------------------------- bounds
MaxNodes == 3   \* longest node list handed to LineageGraph
MaxConns == 2   \* longest connection list handed to LineageGraph
MaxDepth == 1   \* largest finite max_depth a query is called with
MaxFocus == 1   \* longest focus_node_ids list

Ids == {"a", "b", "c"}

\* ---------------------------------------------------------------- values
\* max_depth: int | None.  None is <<>>, the integer k is <<k>>.
None == <<>>
Depths == {None} \cup {<<k>> : k \in 0..MaxDepth}

FilterDirection == {"upstream", "downstream", "both"}

DEFAULT_CONNECTION_TYPE == "select_from"

\* A Node as the loader builds it; label, data_type and data_level play no
\* part in the graph operations.
Node(i) == [id |-> i, label |-> i]

Connection(f, t) ==
    [from_id |-> f, to_id |-> t, connection_type |-> DEFAULT_CONNECTION_TYPE]

SeqUpTo(S, n) == UNION {[1..k -> S] : k \in 0..n}
SeqToSet(s) == {s[k] : k \in 1..Len(s)}

NodeLists == SeqUpTo({Node(i) : i \in Ids}, MaxNodes)
ConnLists == SeqUpTo({Connection(f, t) : f \in Ids, t \in Ids}, MaxConns)
\* Focus lists name an id once: get_subgraph starts from set(focus_node_ids).
FocusLists ==
    {f \in SeqUpTo(Ids, MaxFocus) :
        \A j, k \in 1..Len(f) : j # k => f[j] # f[k]}

\* What a call hands back: a value, or the exception it raised.
Ok(v) == [raised |-> "", value |-> v]
Raise(e, v) == [raised |-> e, value |-> v]

\* ------------------------------------------------------- nx.DiGraph
EmptyDiGraph ==
    [nodes |-> {},
     succ  |-> [i \in Ids |-> <<>>],
     pred  |-> [i \in Ids |-> <<>>],
     edge  |-> [p \in Ids \X Ids |-> 0]]

\* G.add_node(n): a vertex that is already there stays as it is.
add_node(G, n) == [G EXCEPT !.nodes = @ \cup {n}]

\* G.add_edge(u, v, connection=conn): both endpoints become vertices; the
\* pair's data slot is overwritten.  The slot holds the position of conn in
\* the connection list (the Connection object).
add_edge(G, u, v, i) ==
    LET G1 == add_node(add_node(G, u), v)
    IN  [G1 EXCEPT
           !.succ[u] = IF v \in SeqToSet(@) THEN @ ELSE Append(@, v),
           !.pred[v] = IF u \in SeqToSet(@) THEN @ ELSE Append(@, u),
           !.edge[<<u, v>>] = i]

RECURSIVE add_nodes_loop(_, _, _)
add_nodes_loop(G, nodes, k) ==
    IF k > Len(nodes) THEN G
    ELSE add_nodes_loop(add_node(G, nodes[k].id), nodes, k + 1)

RECURSIVE add_edges_loop(_, _, _)
add_edges_loop(G, connections, k) ==
    IF k > Len(connections) THEN G
    ELSE add_edges_loop(
           add_edge(G, connections[k].from_id, connections[k].to_id, k),
           connections, k + 1)

build_graph(nodes, connections) ==
    add_edges_loop(add_nodes_loop(EmptyDiGraph, nodes, 1), connections, 1)

\* self.nodes = {node.id: node for node in nodes}: the last node of an id wins.
nodes_by_id(nodes) ==
    [i \in {nodes[k].id : k \in 1..Len(nodes)} |->
        nodes[CHOOSE k \in 1..Len(nodes) :
                 /\ nodes[k].id = i
                 /\ \A j \in (k + 1)..Len(nodes) : nodes[j].id # i]]

\* ------------------------------------------------------- state
VARIABLES
    self_nodes,        \* LineageGraph.nodes: id -> Node
    self_connections,  \* LineageGraph.connections
    graph,             \* LineageGraph.graph
    ret,               \* the call whose result the caller holds, if any
    input,             \* what the loader, detector or constructor was handed
    file               \* the lineage file at the output path

vars == <<self_nodes, self_connections, graph, ret, input, file>>

NoCall ==
    [op |-> "none", node_id |-> "", to_node_id |-> "", max_depth |-> None,
     focus_node_ids |-> <<>>, direction |-> "", result |-> Ok({})]

\* No input in hand; no file at the output path.
NoInput == <<>>
NoFile == [exists |-> FALSE, nodes |-> <<>>]

Init ==
    \E nodes \in NodeLists, connections \in ConnLists :
        /\ self_nodes = nodes_by_id(nodes)
        /\ self_connections = connections
        /\ graph = build_graph(nodes, connections)
        /\ ret = NoCall
        /\ input = NoInput
        /\ file = NoFile

\* ------------------------------------------------------- queries
\* node_id in self.graph
in_graph(G, node_id) == node_id \in G.nodes

\* G.predecessors(n) and G.successors(n): NetworkXError for a missing vertex.
predecessors(G, n) ==
    IF in_graph(G, n) THEN Ok(G.pred[n]) ELSE Raise("NetworkXError", <<>>)

successors(G, n) ==
    IF in_graph(G, n) THEN Ok(G.succ[n]) ELSE Raise("NetworkXError", <<>>)

\* The vertices reached from S along adj in any number of steps.
RECURSIVE reach(_, _)
reach(adj, S) ==
    LET T == S \cup {v \in Ids : \E u \in S : v \in SeqToSet(adj[u])}
    IN  IF T = S THEN S ELSE reach(adj, T)

\* nx.ancestors(G, source) and nx.descendants(G, source): every vertex with
\* a path to (from) source, source itself left out; NetworkXError for a
\* missing vertex.
ancestors(G, source) ==
    IF in_graph(G, source)
    THEN Ok(reach(G.pred, {source}) \ {source})
    ELSE Raise("NetworkXError", {})

\* descendants giving the direct successors only.
descendants_direct(G, source) ==
    IF in_graph(G, source)
    THEN Ok(SeqToSet(G.succ[source]) \ {source})
    ELSE Raise("NetworkXError", {})

descendants(G, source) ==
    IF in_graph(G, source)
    THEN Ok(reach(G.succ, {source}) \ {source})
    ELSE Raise("NetworkXError", {})

\* The for loop of the depth-limited search over the neighbours of current:
\* an unvisited neighbour is marked, collected and queued one level deeper.
RECURSIVE bfs_neighbours(_, _, _, _)
bfs_neighbours(neigh, depth, st, k) ==
    IF k > Len(neigh) THEN st
    ELSE LET p == neigh[k]
         IN  IF p \notin st.visited
             THEN bfs_neighbours(neigh, depth,
                    [visited |-> st.visited \cup {p},
                     found   |-> st.found \cup {p},
                     queue   |-> Append(st.queue, <<p, depth + 1>>)],
                    k + 1)
             ELSE bfs_neighbours(neigh, depth, st, k + 1)

\* bfs_loop with the depth test off by one (depth > max_depth).
RECURSIVE bfs_loop_off_by_one(_, _, _)
bfs_loop_off_by_one(adj, max_depth, st) ==
    IF st.queue = <<>> THEN st.found
    ELSE LET current == Head(st.queue)[1]
             depth   == Head(st.queue)[2]
             popped  == [st EXCEPT !.queue = Tail(@)]
         IN  IF depth > max_depth
             THEN bfs_loop_off_by_one(adj, max_depth, popped)
             ELSE bfs_loop_off_by_one(adj, max_depth,
                           bfs_neighbours(adj[current], depth, popped, 1))

\* The while loop: pop the head; at depth >= max_depth it is not expanded.
RECURSIVE bfs_loop(_, _, _)
bfs_loop(adj, max_depth, st) ==
    IF st.queue = <<>> THEN st.found
    ELSE LET current == Head(st.queue)[1]
             depth   == Head(st.queue)[2]
             popped  == [st EXCEPT !.queue = Tail(@)]
         IN  IF depth >= max_depth
             THEN bfs_loop(adj, max_depth, popped)
             ELSE bfs_loop(adj, max_depth,
                           bfs_neighbours(adj[current], depth, popped, 1))

\* bfs_start without the start node marked as visited.
bfs_start_unvisited(node_id) ==
    [visited |-> {}, found |-> {}, queue |-> <<<<node_id, 0>>>>]

bfs_start(node_id) ==
    [visited |-> {node_id}, found |-> {}, queue |-> <<<<node_id, 0>>>>]

\* get_upstream_nodes testing "not max_depth": depth 0 taken for unlimited.
get_upstream_nodes_falsy_depth(G, node_id, max_depth) ==
    IF ~in_graph(G, node_id) THEN Ok({})
    ELSE IF max_depth = None \/ max_depth = <<0>> THEN ancestors(G, node_id)
    ELSE Ok(bfs_loop(G.pred, max_depth[1], bfs_start(node_id)))

get_upstream_nodes(G, node_id, max_depth) ==
    IF ~in_graph(G, node_id) THEN Ok({})
    ELSE IF max_depth = None THEN ancestors(G, node_id)
    ELSE Ok(bfs_loop(G.pred, max_depth[1], bfs_start(node_id)))

\* get_downstream_nodes without the test for a missing vertex.
get_downstream_nodes_unguarded(G, node_id, max_depth) ==
    IF max_depth = None THEN descendants(G, node_id)
    ELSE Ok(bfs_loop(G.succ, max_depth[1], bfs_start(node_id)))

get_downstream_nodes(G, node_id, max_depth) ==
    IF ~in_graph(G, node_id) THEN Ok({})
    ELSE IF max_depth = None THEN descendants(G, node_id)
    ELSE Ok(bfs_loop(G.succ, max_depth[1], bfs_start(node_id)))

\* get_direct_connections that leaves the successors out.
get_direct_connections_upstream_only(G, node_id) ==
    IF ~in_graph(G, node_id) THEN Ok({})
    ELSE LET upstream == predecessors(G, node_id)
         IN  IF upstream.raised # "" THEN Raise(upstream.raised, {})
             ELSE Ok(SeqToSet(upstream.value))

get_direct_connections(G, node_id) ==
    IF ~in_graph(G, node_id) THEN Ok({})
    ELSE LET upstream   == predecessors(G, node_id)
             downstream == successors(G, node_id)
         IN  IF upstream.raised # "" THEN Raise(upstream.raised, {})
             ELSE IF downstream.raised # "" THEN Raise(downstream.raised, {})
             ELSE Ok(SeqToSet(upstream.value) \cup SeqToSet(downstream.value))

has_node(G, node_id) == in_graph(G, node_id)

\* ------------------------------------------------------- subgraphs
\* self.graph.subgraph(selected_nodes): the view induced on the vertices of
\* the graph that are in selected_nodes.
subgraph_nodes(G, selected_nodes) == G.nodes \cap selected_nodes

subgraph_edges(G, selected_nodes) ==
    {p \in subgraph_nodes(G, selected_nodes) \X subgraph_nodes(G, selected_nodes) :
        G.edge[p] # 0}

\* convert_back that looks every selected id up in self.nodes, rather than
\* the vertices of the view only.
convert_back_all_selected(self, selected_nodes) ==
    LET sub_edges == subgraph_edges(self.graph, selected_nodes)
    IN  IF \E n \in selected_nodes : n \notin DOMAIN self.nodes
        THEN Raise("KeyError", [nodes |-> {}, connections |-> {}])
        ELSE Ok([nodes       |-> {self.nodes[n] : n \in selected_nodes},
                 connections |-> {self.graph.edge[p] : p \in sub_edges}])

\* "Convert back to our data types": self.nodes[node_id] for every vertex of
\* the view (KeyError for a vertex that is no key of self.nodes), then the
\* connection stored on every edge of the view.  The two lists are modelled
\* as sets, the connections by their positions in self.connections: the
\* order of the lists follows the iteration order of the view.
convert_back(self, selected_nodes) ==
    LET sub_nodes == subgraph_nodes(self.graph, selected_nodes)
        sub_edges == subgraph_edges(self.graph, selected_nodes)
    IN  IF \E n \in sub_nodes : n \notin DOMAIN self.nodes
        THEN Raise("KeyError", [nodes |-> {}, connections |-> {}])
        ELSE Ok([nodes       |-> {self.nodes[n] : n \in sub_nodes},
                 connections |-> {self.graph.edge[p] : p \in sub_edges}])

\* select_loop whose downstream branch repeats the test of the upstream one.
RECURSIVE select_loop_same_test(_, _, _, _, _, _)
select_loop_same_test(G, focus_node_ids, direction, max_depth, selected_nodes, k) ==
    IF k > Len(focus_node_ids) THEN selected_nodes
    ELSE LET node_id == focus_node_ids[k]
             up   == IF direction \in {"upstream", "both"}
                     THEN get_upstream_nodes(G, node_id, max_depth).value
                     ELSE {}
             down == IF direction \in {"upstream", "both"}
                     THEN get_downstream_nodes(G, node_id, max_depth).value
                     ELSE {}
         IN  IF ~in_graph(G, node_id)
             THEN select_loop_same_test(G, focus_node_ids, direction, max_depth,
                                        selected_nodes, k + 1)
             ELSE select_loop_same_test(G, focus_node_ids, direction, max_depth,
                                        selected_nodes \cup up \cup down, k + 1)

\* The loop of get_subgraph over focus_node_ids.
RECURSIVE select_loop(_, _, _, _, _, _)
select_loop(G, focus_node_ids, direction, max_depth, selected_nodes, k) ==
    IF k > Len(focus_node_ids) THEN selected_nodes
    ELSE LET node_id == focus_node_ids[k]
             up   == IF direction \in {"upstream", "both"}
                     THEN get_upstream_nodes(G, node_id, max_depth).value
                     ELSE {}
             down == IF direction \in {"downstream", "both"}
                     THEN get_downstream_nodes(G, node_id, max_depth).value
                     ELSE {}
         IN  IF ~in_graph(G, node_id)
             THEN select_loop(G, focus_node_ids, direction, max_depth,
                              selected_nodes, k + 1)
             ELSE select_loop(G, focus_node_ids, direction, max_depth,
                              selected_nodes \cup up \cup down, k + 1)

selected_nodes_of(G, focus_node_ids, direction, max_depth) ==
    select_loop(G, focus_node_ids, direction, max_depth,
                SeqToSet(focus_node_ids), 1)

get_subgraph(self, focus_node_ids, direction, max_depth) ==
    convert_back(self,
        selected_nodes_of(self.graph, focus_node_ids, direction, max_depth))

\* The loop of get_direct_subgraph over focus_node_ids.
RECURSIVE direct_loop(_, _, _, _)
direct_loop(G, focus_node_ids, selected_nodes, k) ==
    IF k > Len(focus_node_ids) THEN selected_nodes
    ELSE LET node_id == focus_node_ids[k]
         IN  IF in_graph(G, node_id)
             THEN direct_loop(G, focus_node_ids,
                    selected_nodes \cup get_direct_connections(G, node_id).value,
                    k + 1)
             ELSE direct_loop(G, focus_node_ids, selected_nodes, k + 1)

direct_selected_nodes_of(G, focus_node_ids) ==
    direct_loop(G, focus_node_ids, SeqToSet(focus_node_ids), 1)

get_direct_subgraph(self, focus_node_ids) ==
    convert_back(self, direct_selected_nodes_of(self.graph, focus_node_ids))

\* ------------------------------------------------------- cycles and paths
\* nx.is_directed_acyclic_graph: the graph has a topological order, found by
\* taking away, round after round, the vertices no remaining vertex has an
\* edge to.  What remains when no such vertex is left lies on or behind a
\* cycle.
RECURSIVE topological_remaining(_, _)
topological_remaining(G, remaining) ==
    LET zero_indegree ==
            {v \in remaining : \A u \in remaining : G.edge[<<u, v>>] = 0}
    IN  IF zero_indegree = {} THEN remaining
        ELSE topological_remaining(G, remaining \ zero_indegree)

\* is_directed_acyclic_graph that does not count an edge from a vertex to
\* itself.
is_directed_acyclic_graph_no_self_loops(G) ==
    LET H == [G EXCEPT !.edge = [p \in Ids \X Ids |->
                                    IF p[1] = p[2] THEN 0 ELSE G.edge[p]]]
    IN  topological_remaining(H, H.nodes) = {}

is_directed_acyclic_graph(G) == topological_remaining(G, G.nodes) = {}

is_acyclic(G) == is_directed_acyclic_graph(G)

\* The lists of pairwise distinct elements of S.
DistinctSeqs(S) ==
    {s \in SeqUpTo(S, Cardinality(S)) :
        /\ Len(s) > 0
        /\ \A j, k \in 1..Len(s) : j # k => s[j] # s[k]}

Rotate(s, r) == [k \in 1..Len(s) |-> s[((k + r - 1) % Len(s)) + 1]]
Rotations(s) == {Rotate(s, r) : r \in 0..(Len(s) - 1)}

\* nx.simple_cycles: every elementary circuit once, as the list of its
\* vertices in walk order; a self-loop is the circuit [v].  The vertex a
\* circuit is listed from and the order of the circuits follow the
\* algorithm's traversal, so the outcome is any choice of one rotation per
\* circuit, as a set.
simple_cycles(G) ==
    LET circuits ==
            {s \in DistinctSeqs(G.nodes) :
                \A k \in 1..Len(s) : G.edge[<<s[k], s[(k % Len(s)) + 1]>>] # 0}
    IN  {R \in SUBSET circuits :
            \A s \in circuits : Cardinality(R \cap Rotations(s)) = 1}

\* find_cycles: the possible results.  simple_cycles does not raise
\* NetworkXNoCycle; the handler is never entered.
find_cycles(G) == {Ok(cycles) : cycles \in simple_cycles(G)}

\* The depth-first enumeration of nx.all_simple_paths below the path
\* visited, from the k-th successor of its last vertex on, successors in
\* insertion order.
RECURSIVE simple_paths_from(_, _, _, _)
simple_paths_from(G, visited, target, k) ==
    LET children == G.succ[visited[Len(visited)]]
    IN  IF k > Len(children) THEN <<>>
        ELSE LET child == children[k]
                 below == IF child = target THEN <<Append(visited, child)>>
                          ELSE IF child \in SeqToSet(visited) THEN <<>>
                          ELSE simple_paths_from(G, Append(visited, child),
                                                 target, 1)
             IN  below \o simple_paths_from(G, visited, target, k + 1)

\* nx.all_simple_paths(G, source, target): the possible results.  For
\* source = target the releases of NetworkX differ: none, or the path
\* [source].
all_simple_paths(G, source, target) ==
    IF source \notin G.nodes \/ target \notin G.nodes
    THEN {Raise("NodeNotFound", <<>>)}
    ELSE IF source = target THEN {Ok(<<>>), Ok(<<<<source>>>>)}
    ELSE {Ok(simple_paths_from(G, <<source>>, target, 1))}

\* get_all_paths that returns early only when both ids are missing.
get_all_paths_both_missing(G, from_node_id, to_node_id) ==
    IF ~in_graph(G, from_node_id) /\ ~in_graph(G, to_node_id) THEN {Ok(<<>>)}
    ELSE {IF paths.raised = "NetworkXNoPath" THEN Ok(<<>>) ELSE paths :
             paths \in all_simple_paths(G, from_node_id, to_node_id)}

get_all_paths(G, from_node_id, to_node_id) ==
    IF ~in_graph(G, from_node_id) \/ ~in_graph(G, to_node_id) THEN {Ok(<<>>)}
    ELSE {IF paths.raised = "NetworkXNoPath" THEN Ok(<<>>) ELSE paths :
             paths \in all_simple_paths(G, from_node_id, to_node_id)}

\* ------------------------------------------------------- calls
Self == [nodes |-> self_nodes, connections |-> self_connections, graph |-> graph]

\* A call that filters the graph in place: get_subgraph leaves only the
\* vertices it returns.
Call_in_place(op, node_id, max_depth, focus_node_ids, direction, result) ==
    /\ ret.op = "none"
    /\ ret' = [op |-> op, node_id |-> node_id, to_node_id |-> "",
               max_depth |-> max_depth, focus_node_ids |-> focus_node_ids,
               direction |-> direction, result |-> result]
    /\ graph' = IF op = "get_subgraph"
                THEN [graph EXCEPT !.nodes = {n.id : n \in result.value.nodes}]
                ELSE graph
    /\ UNCHANGED <<self_nodes, self_connections, input, file>>

\* The engine is single-threaded and synchronous: one call at a time, and
\* the caller takes the result (Return) before it makes the next call.
Call(op, node_id, max_depth, focus_node_ids, direction, result) ==
    /\ ret.op = "none"
    /\ ret' = [op |-> op, node_id |-> node_id, to_node_id |-> "",
               max_depth |-> max_depth, focus_node_ids |-> focus_node_ids,
               direction |-> direction, result |-> result]
    /\ UNCHANGED <<self_nodes, self_connections, graph, input, file>>

GetUpstreamNodes ==
    \E node_id \in Ids, max_depth \in Depths :
        Call("get_upstream_nodes", node_id, max_depth, <<>>, "",
             get_upstream_nodes(graph, node_id, max_depth))

GetDownstreamNodes ==
    \E node_id \in Ids, max_depth \in Depths :
        Call("get_downstream_nodes", node_id, max_depth, <<>>, "",
             get_downstream_nodes(graph, node_id, max_depth))

GetDirectConnections ==
    \E node_id \in Ids :
        Call("get_direct_connections", node_id, None, <<>>, "",
             get_direct_connections(graph, node_id))

HasNode ==
    \E node_id \in Ids :
        Call("has_node", node_id, None, <<>>, "",
             Ok(has_node(graph, node_id)))

GetSubgraph ==
    \E focus_node_ids \in FocusLists, direction \in FilterDirection,
       max_depth \in Depths :
        Call("get_subgraph", "", max_depth, focus_node_ids, direction,
             get_subgraph(Self, focus_node_ids, direction, max_depth))

GetDirectSubgraph ==
    \E focus_node_ids \in FocusLists :
        Call("get_direct_subgraph", "", None, focus_node_ids, "",
             get_direct_subgraph(Self, focus_node_ids))

IsAcyclic ==
    Call("is_acyclic", "", None, <<>>, "", Ok(is_acyclic(graph)))

FindCycles ==
    /\ ret.op = "none"
    /\ \E result \in find_cycles(graph) :
          Call("find_cycles", "", None, <<>>, "", result)

GetAllPaths ==
    /\ ret.op = "none"
    /\ \E from_node_id \in Ids, to_node_id \in Ids :
          \E result \in get_all_paths(graph, from_node_id, to_node_id) :
              /\ ret' = [NoCall EXCEPT !.op = "get_all_paths",
                                       !.node_id = from_node_id,
                                       !.to_node_id = to_node_id,
                                       !.result = result]
              /\ UNCHANGED <<self_nodes, self_connections, graph, input, file>>

Return ==
    /\ ret.op # "none"
    /\ ret' = NoCall
    /\ UNCHANGED <<self_nodes, self_connections, graph, input, file>>

Next ==
    \/ GetUpstreamNodes
    \/ GetDownstreamNodes
    \/ GetDirectConnections
    \/ HasNode
    \/ GetSubgraph
    \/ GetDirectSubgraph
    \/ IsAcyclic
    \/ FindCycles
    \/ GetAllPaths
    \/ Return

Spec == Init /\ [][Next]_vars

\* ------------------------------------------------------- properties
NodeQueries ==
    {"get_upstream_nodes", "get_downstream_nodes", "get_direct_connections",
     "has_node"}

Declared == DOMAIN self_nodes

Endpoints ==
    {self_connections[k].from_id : k \in 1..Len(self_connections)}
        \cup {self_connections[k].to_id : k \in 1..Len(self_connections)}

HasConnection(u, v) ==
    \E k \in 1..Len(self_connections) :
        self_connections[k].from_id = u /\ self_connections[k].to_id = v

\* The ids with a walk of exactly j >= 0 connections to n (Back) or from n
\* (Forth), read off the connection list.
RECURSIVE Back(_, _)
Back(n, j) ==
    IF j = 0 THEN {n}
    ELSE {u \in Ids : \E v \in Back(n, j - 1) : HasConnection(u, v)}

RECURSIVE Forth(_, _)
Forth(n, j) ==
    IF j = 0 THEN {n}
    ELSE {v \in Ids : \E u \in Forth(n, j - 1) : HasConnection(u, v)}

\* A walk between two of the ids can be cut down to one of at most
\* Cardinality(Ids) connections, so that is what "unlimited" amounts to.
HopLimit(max_depth) ==
    IF max_depth = None THEN Cardinality(Ids) ELSE max_depth[1]

WithinBack(n, max_depth) ==
    UNION {Back(n, j) : j \in 1..HopLimit(max_depth)} \ {n}

WithinForth(n, max_depth) ==
    UNION {Forth(n, j) : j \in 1..HopLimit(max_depth)} \ {n}

\* C1: a node of the graph is never in its own upstream or downstream set,
\* whatever the depth and whatever cycles or self-loops the graph has.
C1_NoSelfInclusion ==
    (ret.op \in {"get_upstream_nodes", "get_downstream_nodes"}
        /\ in_graph(graph, ret.node_id))
    => ret.node_id \notin ret.result.value

\* a depth-limited upstream query of a node with a self-loop and another
\* predecessor
C1_Witness ==
    /\ ret.op = "get_upstream_nodes"
    /\ ret.max_depth # None
    /\ HasConnection(ret.node_id, ret.node_id)
    /\ ret.result.value # {}

\* C2: upstream(n, k) is a subset of upstream(n, k+1), which is a subset of
\* upstream(n, None); the same for downstream.
C2_DepthMonotone ==
    /\ (ret.op = "get_upstream_nodes" /\ ret.max_depth # None) =>
         LET k == ret.max_depth[1]
             next == get_upstream_nodes(graph, ret.node_id, <<k + 1>>).value
         IN  /\ ret.result.value \subseteq next
             /\ next \subseteq get_upstream_nodes(graph, ret.node_id, None).value
    /\ (ret.op = "get_downstream_nodes" /\ ret.max_depth # None) =>
         LET k == ret.max_depth[1]
             next == get_downstream_nodes(graph, ret.node_id, <<k + 1>>).value
         IN  /\ ret.result.value \subseteq next
             /\ next \subseteq get_downstream_nodes(graph, ret.node_id, None).value

\* an upstream query whose result grows when one more level is allowed
C2_Witness ==
    /\ ret.op = "get_upstream_nodes"
    /\ ret.max_depth = <<1>>
    /\ ret.result.value # {}
    /\ ret.result.value # get_upstream_nodes(graph, ret.node_id, <<2>>).value

\* C3: for a node n of the graph, upstream(n, d) is exactly the set of ids
\* m # n with a walk of 1..d connections from m to n (any positive number
\* for d = None), and downstream(n, d) the same with walks from n to m; in
\* particular depth 0 gives the empty set.
C3_ExactlyWithinDepth ==
    /\ (ret.op = "get_upstream_nodes" /\ in_graph(graph, ret.node_id)) =>
         /\ ret.result.raised = ""
         /\ ret.result.value = WithinBack(ret.node_id, ret.max_depth)
    /\ (ret.op = "get_downstream_nodes" /\ in_graph(graph, ret.node_id)) =>
         /\ ret.result.raised = ""
         /\ ret.result.value = WithinForth(ret.node_id, ret.max_depth)

\* a downstream query at depth 1 that stops short of a node two hops away
C3_Witness ==
    /\ ret.op = "get_downstream_nodes"
    /\ ret.max_depth = <<1>>
    /\ ret.result.value # {}
    /\ Forth(ret.node_id, 2) \ (ret.result.value \cup {ret.node_id}) # {}

\* C4: for a node n of the graph, get_direct_connections(n) equals
\* get_upstream_nodes(n, 1) united with get_downstream_nodes(n, 1), also
\* when n has a connection to itself.
C4_DirectIsDepthOne ==
    (ret.op = "get_direct_connections" /\ in_graph(graph, ret.node_id))
    => ret.result.value =
          get_upstream_nodes(graph, ret.node_id, <<1>>).value
            \cup get_downstream_nodes(graph, ret.node_id, <<1>>).value

\* C5: get_direct_subgraph(F) returns the same node ids and the same
\* connections as get_subgraph(F, "both", 1).
C5_DirectSubgraphIsDepthOne ==
    ret.op = "get_direct_subgraph" =>
        LET other == get_subgraph(Self, ret.focus_node_ids, "both", <<1>>)
        IN  /\ ret.result.raised = other.raised
            /\ {n.id : n \in ret.result.value.nodes}
                 = {n.id : n \in other.value.nodes}
            /\ ret.result.value.connections = other.value.connections

\* a direct subgraph around a focus node that has a self-loop and a neighbour
C5_Witness ==
    /\ ret.op = "get_direct_subgraph"
    /\ ret.result.raised = ""
    /\ \E f \in SeqToSet(ret.focus_node_ids) :
          /\ HasConnection(f, f)
          /\ \E n \in ret.result.value.nodes : n.id # f
    /\ ret.result.value.connections # {}

\* An id that is neither declared nor named by a connection.
Absent(i) == i \notin Declared /\ i \notin Endpoints

\* C6: for an id that is no declared node and no endpoint of a connection,
\* the upstream, downstream and direct queries return the empty set,
\* has_node returns false, and none of them raises.
C6_AbsentIsEmpty ==
    (ret.op \in NodeQueries /\ Absent(ret.node_id)) =>
        /\ ret.result.raised = ""
        /\ ret.result.value = (IF ret.op = "has_node" THEN FALSE ELSE {})

\* an unlimited upstream query of an absent id on a graph with connections
C6_Witness ==
    /\ ret.op = "get_upstream_nodes"
    /\ ret.max_depth = None
    /\ Absent(ret.node_id)
    /\ Len(self_connections) > 0
    /\ ret.result = Ok({})

\* An id that a connection names and no node declares.
Dangling(i) == i \notin Declared /\ i \in Endpoints

\* C7: an id that is only an endpoint of a connection and is no declared
\* node is treated as not in the graph: has_node is false and the upstream,
\* downstream and direct queries return the empty set.
C7_DanglingIsAbsent ==
    (ret.op \in NodeQueries /\ Dangling(ret.node_id)) =>
        /\ ret.result.raised = ""
        /\ ret.result.value = (IF ret.op = "has_node" THEN FALSE ELSE {})

\* The selected id set of the subgraph call ret records.
SelectedOfCall ==
    IF ret.op = "get_subgraph"
    THEN selected_nodes_of(graph, ret.focus_node_ids, ret.direction,
                           ret.max_depth)
    ELSE direct_selected_nodes_of(graph, ret.focus_node_ids)

\* C8: get_subgraph and get_direct_subgraph return without raising, whatever
\* the nodes, connections (dangling endpoints included) and focus list, and
\* the nodes returned are exactly the declared nodes whose id is selected.
C8_SubgraphNeverRaises ==
    ret.op \in {"get_subgraph", "get_direct_subgraph"} =>
        /\ ret.result.raised = ""
        /\ ret.result.value.nodes
             = {self_nodes[i] : i \in Declared \cap SelectedOfCall}

\* C9: the connections get_subgraph returns are exactly the connections of
\* the input list with both endpoints selected, each of several connections
\* on the same ordered pair included.
C9_InducedConnections ==
    (ret.op = "get_subgraph" /\ ret.result.raised = "") =>
        ret.result.value.connections
          = {k \in 1..Len(self_connections) :
                /\ self_connections[k].from_id \in SelectedOfCall
                /\ self_connections[k].to_id \in SelectedOfCall}

\* C10: when every connection endpoint is a declared node, the node ids
\* get_subgraph(F, direction, d) returns are the focus ids in the graph,
\* plus upstream(f, d) of each such f for "upstream" and "both", plus
\* downstream(f, d) of each such f for "downstream" and "both".
C10_SubgraphNodeIds ==
    (ret.op = "get_subgraph" /\ Endpoints \subseteq Declared) =>
        LET present == {f \in SeqToSet(ret.focus_node_ids) : has_node(graph, f)}
            ups   == IF ret.direction \in {"upstream", "both"}
                     THEN UNION {get_upstream_nodes(graph, f, ret.max_depth).value :
                                    f \in present}
                     ELSE {}
            downs == IF ret.direction \in {"downstream", "both"}
                     THEN UNION {get_downstream_nodes(graph, f, ret.max_depth).value :
                                    f \in present}
                     ELSE {}
        IN  /\ ret.result.raised = ""
            /\ {n.id : n \in ret.result.value.nodes} = present \cup ups \cup downs

\* an upstream-only subgraph around a focus that also has a downstream node
C10_Witness ==
    /\ ret.op = "get_subgraph"
    /\ ret.direction = "upstream"
    /\ Endpoints \subseteq Declared
    /\ ret.result.raised = ""
    /\ \E f \in SeqToSet(ret.focus_node_ids) :
          /\ WithinForth(f, None) # {}
          /\ WithinBack(f, ret.max_depth) # {}
          /\ {n.id : n \in ret.result.value.nodes}
               = {f} \cup WithinBack(f, ret.max_depth)
          /\ WithinForth(f, None) \ WithinBack(f, ret.max_depth) # {}

\* C11: when no id of the focus list is a vertex of the graph, get_subgraph
\* (every direction, every depth) and get_direct_subgraph return no node and
\* no connection, and do not raise.
C11_DisjointFocusIsEmpty ==
    (ret.op \in {"get_subgraph", "get_direct_subgraph"}
        /\ \A f \in SeqToSet(ret.focus_node_ids) : ~in_graph(graph, f))
    => ret.result = Ok([nodes |-> {}, connections |-> {}])

\* a subgraph asked around an id that is no vertex, on a graph that has
\* vertices and connections
C11_Witness ==
    /\ ret.op = "get_subgraph"
    /\ ret.focus_node_ids # <<>>
    /\ \A f \in SeqToSet(ret.focus_node_ids) : ~in_graph(graph, f)
    /\ Len(self_connections) > 0
    /\ ret.result = Ok([nodes |-> {}, connections |-> {}])

SimplePaths(a, b) ==
    {s \in DistinctSeqs(Ids) :
        /\ s[1] = a
        /\ s[Len(s)] = b
        /\ \A k \in 1..(Len(s) - 1) : HasConnection(s[k], s[k + 1])}

ElementaryCycles ==
    {s \in DistinctSeqs(Ids) :
        \A k \in 1..Len(s) : HasConnection(s[k], s[(k % Len(s)) + 1])}

HasCycle == \E n \in Ids : \E j \in 1..Cardinality(Ids) : n \in Back(n, j)

C17_CyclesAndAcyclicity ==
    /\ ret.op = "is_acyclic" =>
         /\ ret.result.raised = ""
         /\ ret.result.value = ~HasCycle
         /\ \A cycles \in find_cycles(graph) :
                ret.result.value = (cycles.value = {})
    /\ ret.op = "find_cycles" =>
         /\ ret.result.raised = ""
         /\ is_acyclic(graph) = (ret.result.value = {})
         /\ \A c \in ElementaryCycles :
                ret.result.value \cap Rotations(c) # {}
         /\ ret.result.value \subseteq ElementaryCycles

\* is_acyclic() is false on a graph whose only cycle is a self-loop
C17_Witness ==
    /\ ret.op = "is_acyclic"
    /\ ret.result = Ok(FALSE)
    /\ \E n \in Ids : HasConnection(n, n)
    /\ \A c \in ElementaryCycles : Len(c) = 1

\* ------------------------------------------------- missing-node detector
\* Raw records as the YAML parser hands them over (nodes_data).  A value is
\* [kind, s, items]: a string s, a mapping {id: s}, a list of items, null,
\* or "absent" for a key the record does not have.
MaxRecords == 2   \* longest list of raw records
MaxRefs == 1      \* longest select_from list of a raw record

RefIds == {"a", "b"}

Str(s) == [kind |-> "str", s |-> s, items |-> <<>>]
DictId(s) == [kind |-> "dict", s |-> s, items |-> <<>>]
List(items) == [kind |-> "list", s |-> "", items |-> items]
NullValue == [kind |-> "null", s |-> "", items |-> <<>>]
AbsentValue == [kind |-> "absent", s |-> "", items |-> <<>>]

\* select_from entries: an id, or the mapping form {id: ...} of a reference.
Entries == {Str(i) : i \in RefIds} \cup {DictId("a")}

SelectFroms ==
    {AbsentValue, NullValue, Str("a")}
        \cup {List(items) : items \in SeqUpTo(Entries, MaxRefs)}

\* A record: a mapping with or without the key "id", or something else.
Record(has_id, id, select_from) ==
    [kind |-> "dict", has_id |-> has_id, id |-> id, select_from |-> select_from]
NotADict ==
    [kind |-> "str", has_id |-> FALSE, id |-> "", select_from |-> AbsentValue]

Records ==
    {NotADict}
        \cup {Record(TRUE, i, sf) : i \in RefIds, sf \in SelectFroms}
        \cup {Record(FALSE, "", sf) : sf \in SelectFroms}

NodesData == SeqUpTo(Records, MaxRecords)

\* The Python primitives the detector rests on, with the way each fails.
isinstance_dict(v) == v.kind = "dict"
isinstance_list(v) == v.kind = "list"
isinstance_str(v) == v.kind = "str"

\* node.get("select_from"): None for a missing key; AttributeError when
\* node has no method get.
get_select_from(node) ==
    IF node.kind # "dict" THEN Raise("AttributeError", NullValue)
    ELSE IF node.select_from.kind = "absent" THEN Ok(NullValue)
    ELSE Ok(node.select_from)

\* "not v" is false for a non-empty string and a non-empty list.
truthy(v) ==
    \/ v.kind = "str" /\ v.s # ""
    \/ v.kind = "list" /\ v.items # <<>>
    \/ v.kind = "dict"

\* set.add(v) and "v in set": TypeError for an unhashable v (a mapping).
set_add(S, v) ==
    IF v.kind \in {"dict", "list"} THEN Raise("TypeError", S)
    ELSE Ok(S \cup {v.s})

set_contains(S, v) ==
    IF v.kind \in {"dict", "list"} THEN Raise("TypeError", FALSE)
    ELSE Ok(v.s \in S)

\* The inner loop of extract_referenced_node_ids.
RECURSIVE referenced_refs_loop(_, _, _)
referenced_refs_loop(select_from, referenced_ids, j) ==
    IF j > Len(select_from) THEN Ok(referenced_ids)
    ELSE IF isinstance_str(select_from[j])
    THEN LET added == set_add(referenced_ids, select_from[j])
         IN  IF added.raised # "" THEN added
             ELSE referenced_refs_loop(select_from, added.value, j + 1)
    ELSE referenced_refs_loop(select_from, referenced_ids, j + 1)

\* referenced_loop without the test that the record is a mapping.
RECURSIVE referenced_loop_any_record(_, _, _)
referenced_loop_any_record(nodes_data, referenced_ids, k) ==
    IF k > Len(nodes_data) THEN Ok(referenced_ids)
    ELSE LET node == nodes_data[k]
             select_from == get_select_from(node)
         IN  IF select_from.raised # ""
             THEN Raise(select_from.raised, referenced_ids)
             ELSE IF ~truthy(select_from.value)
             THEN referenced_loop_any_record(nodes_data, referenced_ids, k + 1)
             ELSE IF isinstance_list(select_from.value)
             THEN LET inner == referenced_refs_loop(select_from.value.items,
                                                    referenced_ids, 1)
                  IN  IF inner.raised # "" THEN inner
                      ELSE referenced_loop_any_record(nodes_data, inner.value,
                                                      k + 1)
             ELSE referenced_loop_any_record(nodes_data, referenced_ids, k + 1)

\* The loop of extract_referenced_node_ids over nodes_data.
RECURSIVE referenced_loop(_, _, _)
referenced_loop(nodes_data, referenced_ids, k) ==
    IF k > Len(nodes_data) THEN Ok(referenced_ids)
    ELSE LET node == nodes_data[k]
             select_from == get_select_from(node)
         IN  IF ~isinstance_dict(node)
             THEN referenced_loop(nodes_data, referenced_ids, k + 1)
             ELSE IF select_from.raised # ""
             THEN Raise(select_from.raised, referenced_ids)
             ELSE IF ~truthy(select_from.value)
             THEN referenced_loop(nodes_data, referenced_ids, k + 1)
             ELSE IF isinstance_list(select_from.value)
             THEN LET inner == referenced_refs_loop(select_from.value.items,
                                                    referenced_ids, 1)
                  IN  IF inner.raised # "" THEN inner
                      ELSE referenced_loop(nodes_data, inner.value, k + 1)
             ELSE referenced_loop(nodes_data, referenced_ids, k + 1)

extract_referenced_node_ids(nodes_data) == referenced_loop(nodes_data, {}, 1)

\* The loop of extract_existing_node_ids over nodes_data.
RECURSIVE existing_loop(_, _, _)
existing_loop(nodes_data, existing_ids, k) ==
    IF k > Len(nodes_data) THEN Ok(existing_ids)
    ELSE LET node == nodes_data[k]
         IN  IF isinstance_dict(node) /\ node.has_id
             THEN LET added == set_add(existing_ids, Str(node.id))
                  IN  IF added.raised # "" THEN added
                      ELSE existing_loop(nodes_data, added.value, k + 1)
             ELSE existing_loop(nodes_data, existing_ids, k + 1)

extract_existing_node_ids(nodes_data) == existing_loop(nodes_data, {}, 1)

\* missing_refs_loop that does not keep the set of ids already appended.
RECURSIVE missing_refs_loop_unseen(_, _, _, _)
missing_refs_loop_unseen(select_from, missing_ids, acc, j) ==
    IF j > Len(select_from) THEN Ok(acc)
    ELSE LET ref == select_from[j]
         IN  IF isinstance_str(ref) /\ set_contains(missing_ids, ref).value
             THEN missing_refs_loop_unseen(select_from, missing_ids,
                    [missing_in_order |-> Append(acc.missing_in_order, ref.s),
                     seen |-> acc.seen],
                    j + 1)
             ELSE missing_refs_loop_unseen(select_from, missing_ids, acc, j + 1)

\* The inner loop of find_missing_node_ids; acc holds missing_in_order and
\* seen.  "and" stops at the first false operand, so the membership tests
\* are made for strings only.
RECURSIVE missing_refs_loop(_, _, _, _)
missing_refs_loop(select_from, missing_ids, acc, j) ==
    IF j > Len(select_from) THEN Ok(acc)
    ELSE LET ref == select_from[j]
         IN  IF ~isinstance_str(ref)
             THEN missing_refs_loop(select_from, missing_ids, acc, j + 1)
             ELSE IF set_contains(missing_ids, ref).raised # ""
             THEN Raise(set_contains(missing_ids, ref).raised, acc)
             ELSE IF set_contains(missing_ids, ref).value
                     /\ ~set_contains(acc.seen, ref).value
             THEN missing_refs_loop(select_from, missing_ids,
                    [missing_in_order |-> Append(acc.missing_in_order, ref.s),
                     seen |-> acc.seen \cup {ref.s}],
                    j + 1)
             ELSE missing_refs_loop(select_from, missing_ids, acc, j + 1)

\* The outer loop of find_missing_node_ids.
RECURSIVE missing_loop(_, _, _, _)
missing_loop(nodes_data, missing_ids, acc, k) ==
    IF k > Len(nodes_data) THEN Ok(acc.missing_in_order)
    ELSE LET node == nodes_data[k]
             select_from == get_select_from(node)
         IN  IF ~isinstance_dict(node)
             THEN missing_loop(nodes_data, missing_ids, acc, k + 1)
             ELSE IF select_from.raised # ""
             THEN Raise(select_from.raised, acc.missing_in_order)
             ELSE IF ~truthy(select_from.value)
                     \/ ~isinstance_list(select_from.value)
             THEN missing_loop(nodes_data, missing_ids, acc, k + 1)
             ELSE LET inner == missing_refs_loop(select_from.value.items,
                                                 missing_ids, acc, 1)
                  IN  IF inner.raised # ""
                      THEN Raise(inner.raised, inner.value.missing_in_order)
                      ELSE missing_loop(nodes_data, missing_ids, inner.value,
                                        k + 1)

\* find_missing_node_ids that takes every referenced id for missing.
find_missing_node_ids_all_referenced(nodes_data) ==
    LET existing_ids   == extract_existing_node_ids(nodes_data)
        referenced_ids == extract_referenced_node_ids(nodes_data)
    IN  IF existing_ids.raised # "" THEN Raise(existing_ids.raised, <<>>)
        ELSE IF referenced_ids.raised # "" THEN Raise(referenced_ids.raised, <<>>)
        ELSE missing_loop(nodes_data, referenced_ids.value,
                          [missing_in_order |-> <<>>, seen |-> {}], 1)

find_missing_node_ids(nodes_data) ==
    LET existing_ids   == extract_existing_node_ids(nodes_data)
        referenced_ids == extract_referenced_node_ids(nodes_data)
    IN  IF existing_ids.raised # "" THEN Raise(existing_ids.raised, <<>>)
        ELSE IF referenced_ids.raised # "" THEN Raise(referenced_ids.raised, <<>>)
        ELSE missing_loop(nodes_data,
                          referenced_ids.value \ existing_ids.value,
                          [missing_in_order |-> <<>>, seen |-> {}], 1)

\* No graph has been built: the detector works on the raw records.
NoGraph ==
    /\ self_nodes = nodes_by_id(<<>>)
    /\ self_connections = <<>>
    /\ graph = build_graph(<<>>, <<>>)

InitMissing ==
    /\ input \in NodesData
    /\ NoGraph
    /\ ret = NoCall
    /\ file = NoFile

ExtractReferencedNodeIds ==
    Call("extract_referenced_node_ids", "", None, <<>>, "",
         extract_referenced_node_ids(input))

ExtractExistingNodeIds ==
    Call("extract_existing_node_ids", "", None, <<>>, "",
         extract_existing_node_ids(input))

FindMissingNodeIds ==
    Call("find_missing_node_ids", "", None, <<>>, "",
         find_missing_node_ids(input))

NextMissing ==
    \/ ExtractReferencedNodeIds
    \/ ExtractExistingNodeIds
    \/ FindMissingNodeIds
    \/ Return

SpecMissing == InitMissing /\ [][NextMissing]_vars

\* The positions <<k, j>> at which the records hold a string reference: entry
\* j of the select_from list of record k.
RefPositions ==
    {p \in (1..Len(input)) \X (1..MaxRefs) :
        /\ input[p[1]].kind = "dict"
        /\ input[p[1]].select_from.kind = "list"
        /\ p[2] <= Len(input[p[1]].select_from.items)
        /\ input[p[1]].select_from.items[p[2]].kind = "str"}

RefAt(p) == input[p[1]].select_from.items[p[2]].s

Before(p, q) == p[1] < q[1] \/ (p[1] = q[1] /\ p[2] < q[2])

\* The first position at which the id x is referenced.
FirstRef(x) ==
    CHOOSE p \in RefPositions :
        /\ RefAt(p) = x
        /\ \A q \in RefPositions : RefAt(q) = x => (q = p \/ Before(p, q))

RecordIds == {input[k].id : k \in {j \in 1..Len(input) :
                                      input[j].kind = "dict" /\ input[j].has_id}}

\* C13: the result of find_missing_node_ids holds no id that is the id of a
\* record of the list, so never the id of a record that lists itself in its
\* select_from.
C13_NoExistingIdIsMissing ==
    ret.op = "find_missing_node_ids" =>
        \A k \in 1..Len(input) :
            (input[k].kind = "dict" /\ input[k].has_id)
            => input[k].id \notin SeqToSet(ret.result.value)

\* a record that lists itself, next to a record that references an id no
\* record has
C13_Witness ==
    /\ ret.op = "find_missing_node_ids"
    /\ ret.result.value # <<>>
    /\ \E p \in RefPositions : input[p[1]].has_id /\ RefAt(p) = input[p[1]].id

WellFormedRefs == {RefAt(p) : p \in RefPositions}
RefsOfRecordsWithId ==
    {RefAt(p) : p \in {q \in RefPositions : input[q[1]].has_id}}

\* C15 as stated: in the three operations a record that is not a mapping, a
\* record without an id, an absent, null or empty select_from and a
\* non-string entry contribute nothing and raise nothing, so the results are
\* those of the mappings that have an id, read from their string entries.
C15_MalformedContributeNothing ==
    /\ ret.op = "extract_referenced_node_ids" =>
         ret.result = Ok(RefsOfRecordsWithId)
    /\ ret.op = "extract_existing_node_ids" =>
         ret.result = Ok(RecordIds)
    /\ ret.op = "find_missing_node_ids" =>
         /\ ret.result.raised = ""
         /\ SeqToSet(ret.result.value) = RefsOfRecordsWithId \ RecordIds

\* C15, amended: a record that is not a mapping, an absent, null or empty
\* select_from and a non-string entry contribute nothing and raise nothing;
\* a record without an id contributes no existing id, and the string entries
\* of its select_from list count as references like those of any mapping.
C15_MalformedSkippedIdlessCounted ==
    /\ ret.op = "extract_referenced_node_ids" =>
         ret.result = Ok(WellFormedRefs)
    /\ ret.op = "extract_existing_node_ids" =>
         ret.result = Ok(RecordIds)
    /\ ret.op = "find_missing_node_ids" =>
         /\ ret.result.raised = ""
         /\ SeqToSet(ret.result.value) = WellFormedRefs \ RecordIds

\* a record that is no mapping, followed by a mapping without an id whose
\* reference is reported missing
C15_Witness ==
    /\ ret.op = "find_missing_node_ids"
    /\ Len(input) = 2
    /\ input[1].kind # "dict"
    /\ input[2].kind = "dict" /\ ~input[2].has_id
    /\ ret.result.value # <<>>

\* ------------------------------------------------- Node construction
\* The arguments Node(...) is called with, as values [kind, s, items].
NodeArgs ==
    [id          : {Str("a"), Str(""), NullValue},
     label       : {Str("a"), Str(""), NullValue},
     data_type   : {Str("table"), Str(""), NullValue},
     data_level  : {Str("gold"), Str(""), NullValue},
     select_from : {NullValue, Str("a")}
                     \cup {List(items) : items \in SeqUpTo(Entries, MaxRefs)}]

\* all(isinstance(item, str) for item in select_from)
all_str(items) == \A j \in 1..Len(items) : isinstance_str(items[j])

\* data_type is None or data_type == ""
none_or_empty(v) == v.kind = "null" \/ (v.kind = "str" /\ v.s = "")

\* Node.__post_init__ without the test of the select_from entries.
Node_post_init_any_entry(self) ==
    IF ~isinstance_str(self.id) \/ ~truthy(self.id)
    THEN Raise("ValueError", self)
    ELSE IF ~isinstance_str(self.label) \/ ~truthy(self.label)
    THEN Raise("ValueError", self)
    ELSE LET typed   == IF none_or_empty(self.data_type)
                        THEN [self EXCEPT !.data_type = Str("unknown")]
                        ELSE self
             levelled == IF none_or_empty(typed.data_level)
                         THEN [typed EXCEPT !.data_level = Str("unknown")]
                         ELSE typed
         IN  IF ~isinstance_list(levelled.select_from)
             THEN Raise("ValueError", levelled)
             ELSE Ok(levelled)

\* Node.__post_init__: the checks and assignments in the order of the code;
\* the value handed back is the object, or the error raised.
Node_post_init(self) ==
    IF ~isinstance_str(self.id) \/ ~truthy(self.id)
    THEN Raise("ValueError", self)
    ELSE IF ~isinstance_str(self.label) \/ ~truthy(self.label)
    THEN Raise("ValueError", self)
    ELSE LET typed   == IF none_or_empty(self.data_type)
                        THEN [self EXCEPT !.data_type = Str("unknown")]
                        ELSE self
             levelled == IF none_or_empty(typed.data_level)
                         THEN [typed EXCEPT !.data_level = Str("unknown")]
                         ELSE typed
         IN  IF ~isinstance_list(levelled.select_from)
             THEN Raise("ValueError", levelled)
             ELSE IF ~all_str(levelled.select_from.items)
             THEN Raise("ValueError", levelled)
             ELSE Ok(levelled)

InitNode ==
    /\ input \in NodeArgs
    /\ NoGraph
    /\ ret = NoCall
    /\ file = NoFile

ConstructNode == Call("Node", "", None, <<>>, "", Node_post_init(input))

NextNode ==
    \/ ConstructNode
    \/ Return

SpecNode == InitNode /\ [][NextNode]_vars

NonEmptyString(v) == v.kind = "str" /\ v.s # ""

MaxDocNodes == 1   \* longest list of nodes in a document

DocNode(i, select_from, connected_to) ==
    [id |-> i, label |-> i, select_from |-> select_from,
     connected_to |-> connected_to]

ConnectedTos ==
    {AbsentValue, NullValue, Str("b"), List(<<Str("a")>>),
     List(<<DictId("a")>>)}

DocNodes ==
    {DocNode(i, sf, ct) : i \in RefIds, sf \in SelectFroms, ct \in ConnectedTos}

Documents ==
    [nodes : SeqUpTo(DocNodes, MaxDocNodes), has_connections : BOOLEAN]

\* "if isinstance(x, str): x = [x]", then the ids of the entries: an entry
\* that is a mapping stands for its "id".
entry_ids(v) ==
    LET entries == IF isinstance_str(v) THEN <<v>> ELSE v.items
    IN  [j \in 1..Len(entries) |-> entries[j].s]

\* The connections one node gives, with the endpoints of a select_from
\* reference the wrong way round.
node_connections_reversed(node) ==
    LET sources == IF node.select_from.kind \in {"absent", "null"} THEN <<>>
                   ELSE entry_ids(node.select_from)
        targets == IF node.connected_to.kind \in {"absent", "null"} THEN <<>>
                   ELSE entry_ids(node.connected_to)
    IN  [j \in 1..Len(sources) |->
            [from_id |-> node.id, to_id |-> sources[j],
             connection_type |-> "select_from"]]
        \o [j \in 1..Len(targets) |->
            [from_id |-> node.id, to_id |-> targets[j],
             connection_type |-> "connected_to"]]

\* The body of the loop of _extract_connections_from_nodes: the connections
\* one node gives, select_from first, then connected_to.
node_connections(node) ==
    LET sources == IF node.select_from.kind \in {"absent", "null"} THEN <<>>
                   ELSE entry_ids(node.select_from)
        targets == IF node.connected_to.kind \in {"absent", "null"} THEN <<>>
                   ELSE entry_ids(node.connected_to)
    IN  [j \in 1..Len(sources) |->
            [from_id |-> sources[j], to_id |-> node.id,
             connection_type |-> "select_from"]]
        \o [j \in 1..Len(targets) |->
            [from_id |-> node.id, to_id |-> targets[j],
             connection_type |-> "connected_to"]]

RECURSIVE extract_connections_loop(_, _, _)
extract_connections_loop(nodes_data, connections, k) ==
    IF k > Len(nodes_data) THEN connections
    ELSE extract_connections_loop(nodes_data,
            connections \o node_connections(nodes_data[k]), k + 1)

extract_connections_from_nodes(nodes_data) ==
    extract_connections_loop(nodes_data, <<>>, 1)

\* _normalize_format: the explicit connections when the document has the
\* key, the inline ones otherwise.
normalize_format(data) ==
    [nodes_data |-> data.nodes,
     connections_data |-> IF data.has_connections THEN <<>>
                          ELSE extract_connections_from_nodes(data.nodes)]

\* _parse_nodes and _parse_connections: one Node per record, from its id and
\* label (select_from is not handed on), one Connection per mapping.
parse_nodes(nodes_data) ==
    [k \in 1..Len(nodes_data) |->
        [id |-> nodes_data[k].id, label |-> nodes_data[k].label]]

parse_connections(connections_data) ==
    [k \in 1..Len(connections_data) |->
        [from_id |-> connections_data[k].from_id,
         to_id |-> connections_data[k].to_id,
         connection_type |-> connections_data[k].connection_type]]

load_lineage_file(data) ==
    LET normalized == normalize_format(data)
    IN  [nodes |-> parse_nodes(normalized.nodes_data),
         connections |-> parse_connections(normalized.connections_data)]

InitLoader ==
    /\ input \in Documents
    /\ NoGraph
    /\ ret = NoCall
    /\ file = NoFile

\* mmd_generate: load the document and build the LineageGraph from it.
LoadLineageFile ==
    /\ ret.op = "none"
    /\ LET loaded == load_lineage_file(input)
       IN  /\ self_nodes' = nodes_by_id(loaded.nodes)
           /\ self_connections' = loaded.connections
           /\ graph' = build_graph(loaded.nodes, loaded.connections)
           /\ ret' = [NoCall EXCEPT !.op = "load_lineage_file",
                                    !.result = Ok(Len(loaded.connections))]
    /\ UNCHANGED <<input, file>>

NextLoader ==
    \/ LoadLineageFile
    \/ Return

SpecLoader == InitLoader /\ [][NextLoader]_vars

\* The inline references of the document, as <<k, field, j>>: entry j of the
\* field of node k; a single string is a list of one entry.
InlineEntries(v) ==
    IF v.kind = "str" THEN <<v>>
    ELSE IF v.kind = "list" THEN v.items
    ELSE <<>>

InlineRefs ==
    {r \in (1..Len(input.nodes)) \X {"select_from", "connected_to"}
             \X (1..MaxRefs) :
        r[3] <= Len(InlineEntries(IF r[2] = "select_from"
                                  THEN input.nodes[r[1]].select_from
                                  ELSE input.nodes[r[1]].connected_to))}

\* The connection the claim gives for an inline reference.
ConnectionOf(r) ==
    LET N == input.nodes[r[1]].id
    IN  IF r[2] = "select_from"
        THEN [from_id |-> InlineEntries(input.nodes[r[1]].select_from)[r[3]].s,
              to_id |-> N, connection_type |-> "select_from"]
        ELSE [from_id |-> N,
              to_id |-> InlineEntries(input.nodes[r[1]].connected_to)[r[3]].s,
              connection_type |-> "connected_to"]

\* The loaded connections are the connections of the inline references, one
\* for one.
OnePerInlineReference ==
    /\ Len(self_connections) = Cardinality(InlineRefs)
    /\ \A c \in SeqToSet(self_connections) \cup {ConnectionOf(r) : r \in InlineRefs} :
          Cardinality({k \in 1..Len(self_connections) : self_connections[k] = c})
            = Cardinality({r \in InlineRefs : ConnectionOf(r) = c})

SelectFromRefs == {r \in InlineRefs : r[2] = "select_from"}

\* C19 as stated: without a "connections" key the loader derives one
\* connection per inline reference (S -> N of type select_from for an entry
\* S of N's select_from, N -> T of type connected_to for an entry T of N's
\* connected_to), and in the graph built from them every select_from entry
\* of N is in get_upstream_nodes(N, 1).
C19_InlineReferencesAreUpstream ==
    (ret.op = "load_lineage_file" /\ ~input.has_connections) =>
        /\ OnePerInlineReference
        /\ \A r \in SelectFromRefs :
              ConnectionOf(r).from_id
                \in get_upstream_nodes(graph, ConnectionOf(r).to_id, <<1>>).value

\* C19, amended: the same, with every select_from entry of N other than N
\* itself in get_upstream_nodes(N, 1).
C19_OtherInlineReferencesAreUpstream ==
    (ret.op = "load_lineage_file" /\ ~input.has_connections) =>
        /\ OnePerInlineReference
        /\ \A r \in SelectFromRefs :
              ConnectionOf(r).from_id # ConnectionOf(r).to_id =>
                ConnectionOf(r).from_id
                  \in get_upstream_nodes(graph, ConnectionOf(r).to_id, <<1>>).value

\* a node with a select_from entry other than itself and a connected_to
\* entry, loaded from a document without "connections"
C19_Witness ==
    /\ ret.op = "load_lineage_file"
    /\ ~input.has_connections
    /\ \E r \in SelectFromRefs : ConnectionOf(r).from_id # ConnectionOf(r).to_id
    /\ \E r \in InlineRefs : r[2] = "connected_to"
    /\ Len(self_connections) = 2

\* ------------------------------------------------- extract_from_sql
\* asdict(node) of a Node that extract_node_from_create built: label is the
\* id, data_type "table" or "view", data_level None made "unknown" by
\* Node.__post_init__, select_from [].
ExtractedNode(i, data_type) ==
    [id |-> i, label |-> i, data_type |-> Str(data_type),
     data_level |-> Str("unknown"), select_from |-> List(<<>>)]

\* extract_nodes_from_sql_files: one node per id, sorted by id.
ExtractedLists ==
    {nodes \in SeqUpTo({ExtractedNode(i, t) : i \in RefIds, t \in {"table", "view"}},
                       Cardinality(RefIds)) :
        \A j, k \in 1..Len(nodes) :
            j < k => (nodes[j].id = "a" /\ nodes[k].id = "b")}

Stats(nodes_added, nodes_updated, connections_added) ==
    [nodes_added |-> nodes_added, nodes_updated |-> nodes_updated,
     connections_added |-> connections_added]

\* existing_nodes = {node["id"]: node ...}: the ids of the file, and for an
\* id the position of the node the mapping holds (the last of that id).
file_ids(data_nodes) == {data_nodes[k].id : k \in 1..Len(data_nodes)}

last_of(data_nodes, i) ==
    CHOOSE k \in 1..Len(data_nodes) :
        /\ data_nodes[k].id = i
        /\ \A j \in (k + 1)..Len(data_nodes) : data_nodes[j].id # i

is_none(v) == v.kind \in {"null", "absent"}

\* The loop over new_node_dict["select_from"]: a source not in the
\* existing list is appended and counted.
RECURSIVE merge_select_from(_, _, _)
merge_select_from(existing_select_from, sources, j) ==
    IF j > Len(sources) THEN existing_select_from
    ELSE IF sources[j] \in SeqToSet(existing_select_from)
    THEN merge_select_from(existing_select_from, sources, j + 1)
    ELSE merge_select_from(Append(existing_select_from, sources[j]), sources,
                           j + 1)

\* The update of one existing node from a new one.
update_node(existing_node, new_node_dict) ==
    LET existing_select_from ==
            IF is_none(existing_node.select_from) THEN <<>>
            ELSE existing_node.select_from.items
        merged == merge_select_from(existing_select_from,
                                    new_node_dict.select_from.items, 1)
    IN  [existing_node EXCEPT
           !.data_level = IF ~is_none(new_node_dict.data_level) /\ is_none(@)
                          THEN new_node_dict.data_level ELSE @,
           !.data_type  = IF ~is_none(new_node_dict.data_type) /\ is_none(@)
                          THEN new_node_dict.data_type ELSE @,
           !.select_from = List(merged)]

connections_added_by(existing_node, new_node_dict) ==
    Len(update_node(existing_node, new_node_dict).select_from.items)
      - (IF is_none(existing_node.select_from) THEN 0
         ELSE Len(existing_node.select_from.items))

updated_by(existing_node, new_node_dict) ==
    \/ ~is_none(new_node_dict.data_level) /\ is_none(existing_node.data_level)
    \/ ~is_none(new_node_dict.data_type) /\ is_none(existing_node.data_type)
    \/ connections_added_by(existing_node, new_node_dict) > 0

\* The loop of the update branch; existing_ids is fixed before the loop.
RECURSIVE update_loop(_, _, _, _, _)
update_loop(data_nodes, existing_ids, nodes_dict, stats, k) ==
    IF k > Len(nodes_dict) THEN [nodes |-> data_nodes, stats |-> stats]
    ELSE LET new_node_dict == nodes_dict[k]
         IN  IF new_node_dict.id \in existing_ids
             THEN LET at == last_of(data_nodes, new_node_dict.id)
                      existing_node == data_nodes[at]
                  IN  update_loop(
                        [data_nodes EXCEPT
                           ![at] = update_node(existing_node, new_node_dict)],
                        existing_ids, nodes_dict,
                        Stats(stats.nodes_added,
                              stats.nodes_updated
                                + (IF updated_by(existing_node, new_node_dict)
                                   THEN 1 ELSE 0),
                              stats.connections_added
                                + connections_added_by(existing_node,
                                                       new_node_dict)),
                        k + 1)
             ELSE update_loop(Append(data_nodes, new_node_dict), existing_ids,
                              nodes_dict,
                              Stats(stats.nodes_added + 1, stats.nodes_updated,
                                    stats.connections_added),
                              k + 1)

\* new_nodes_of that keeps every node of nodes_dict.
RECURSIVE new_nodes_of_unfiltered(_, _, _)
new_nodes_of_unfiltered(nodes_dict, existing_ids, k) ==
    IF k > Len(nodes_dict) THEN <<>>
    ELSE <<nodes_dict[k]>> \o new_nodes_of_unfiltered(nodes_dict, existing_ids, k + 1)

\* The nodes of nodes_dict whose id the file does not have, in order.
RECURSIVE new_nodes_of(_, _, _)
new_nodes_of(nodes_dict, existing_ids, k) ==
    IF k > Len(nodes_dict) THEN <<>>
    ELSE (IF nodes_dict[k].id \in existing_ids THEN <<>> ELSE <<nodes_dict[k]>>)
           \o new_nodes_of(nodes_dict, existing_ids, k + 1)

\* write_nodes_to_yaml: what it returns or raises, and the file it leaves.
write_nodes_to_yaml(nodes, output_path, update_nodes, prevent_file_overwrite) ==
    IF output_path.exists /\ prevent_file_overwrite /\ ~update_nodes
    THEN [result |-> Raise("FileExistsError", Stats(0, 0, 0)),
          file   |-> output_path]
    ELSE IF output_path.exists /\ update_nodes
    THEN LET done == update_loop(output_path.nodes, file_ids(output_path.nodes),
                                 nodes, Stats(0, 0, 0), 1)
         IN  [result |-> Ok(done.stats),
              file   |-> [exists |-> TRUE, nodes |-> done.nodes]]
    ELSE IF output_path.exists /\ ~update_nodes
    THEN LET new_nodes == new_nodes_of(nodes, file_ids(output_path.nodes), 1)
         IN  [result |-> Ok(Stats(Len(new_nodes), 0, 0)),
              file   |-> [exists |-> TRUE,
                          nodes  |-> output_path.nodes \o new_nodes]]
    ELSE [result |-> Ok(Stats(Len(nodes), 0, 0)),
          file   |-> [exists |-> TRUE, nodes |-> nodes]]

\* extract_from_sql_command: the exit status, the statistics printed and
\* the file left at the output path.  An exception is reported and turned
\* into exit status 1.
extract_from_sql_command(nodes, output, append) ==
    IF nodes = <<>>
    THEN [exit_code |-> 0, stats |-> Stats(0, 0, 0), file |-> output]
    ELSE LET written == write_nodes_to_yaml(nodes, output, FALSE, ~append)
         IN  IF written.result.raised # ""
             THEN [exit_code |-> 1, stats |-> Stats(0, 0, 0), file |-> output]
             ELSE [exit_code |-> 0, stats |-> written.result.value,
                   file |-> written.file]

InitExtract ==
    /\ input = NoInput
    /\ NoGraph
    /\ ret = NoCall
    /\ file = NoFile

\* One run of "extract_from_sql PATTERN -o OUTPUT [--append]"; input keeps
\* what the run was given.
ExtractFromSql ==
    /\ ret.op = "none"
    /\ \E nodes \in ExtractedLists, append \in BOOLEAN :
          LET run == extract_from_sql_command(nodes, file, append)
          IN  /\ input' = [nodes |-> nodes, append |-> append]
              /\ file' = run.file
              /\ ret' = [NoCall EXCEPT
                           !.op = "extract_from_sql",
                           !.result = Ok([exit_code |-> run.exit_code,
                                          stats |-> run.stats])]
    /\ UNCHANGED <<self_nodes, self_connections, graph>>

NextExtract ==
    \/ ExtractFromSql
    \/ Return

SpecExtract == InitExtract /\ [][NextExtract]_vars

\* C20: a run of extract_from_sql without --append that finds a lineage
\* file at the output path succeeds and leaves the file holding the freshly
\* extracted nodes and no others; a run with --append keeps the nodes the
\* file had.
C20_OverwriteWithoutAppend ==
    [][(ret'.op = "extract_from_sql" /\ file.exists /\ input'.nodes # <<>>) =>
          IF input'.append
          THEN /\ ret'.result.value.exit_code = 0
               /\ SeqToSet(file.nodes) \subseteq SeqToSet(file'.nodes)
          ELSE /\ ret'.result.value.exit_code = 0
               /\ file' = [exists |-> TRUE, nodes |-> input'.nodes]]_vars

\* ------------------------------------------------- write_nodes_to_yaml
MaxWriteNodes == 2   \* longest list of nodes handed to write_nodes_to_yaml
MaxFileNodes == 1    \* most nodes in the lineage file before the call

WriterSelectFroms == {List(<<>>), List(<<Str("b")>>)}

\* asdict(node) of a Node handed to the writer: __post_init__ has made
\* data_type and data_level strings and select_from a list of strings.
WriterNode(i, select_from) ==
    [id |-> i, label |-> i, data_type |-> Str("view"),
     data_level |-> Str("unknown"), select_from |-> select_from]

WriterNodeLists ==
    SeqUpTo({WriterNode(i, sf) : i \in RefIds, sf \in WriterSelectFroms},
            MaxWriteNodes)

\* A node of a lineage file kept by hand: a label of its own, data_type and
\* data_level given or null, select_from a list, null or left out.
FileNode(i, data_type, data_level, select_from) ==
    [id |-> i, label |-> "kept", data_type |-> data_type,
     data_level |-> data_level, select_from |-> select_from]

FileNodes ==
    {FileNode(i, dt, dl, sf) :
        i \in RefIds, dt \in {NullValue, Str("table")},
        dl \in {NullValue, Str("gold")},
        sf \in {AbsentValue, NullValue} \cup WriterSelectFroms}

distinct_ids(nodes) ==
    \A j, k \in 1..Len(nodes) : j # k => nodes[j].id # nodes[k].id

\* The lineage files a call may find: none, or one whose ids are pairwise
\* distinct.
LineageFiles ==
    {NoFile} \cup
      {[exists |-> TRUE, nodes |-> nodes] :
          nodes \in {ns \in SeqUpTo(FileNodes, MaxFileNodes) : distinct_ids(ns)}}

InitWriter ==
    /\ input \in [nodes : WriterNodeLists, update_nodes : {FALSE},
                  prevent_file_overwrite : {FALSE}]
    /\ file \in LineageFiles
    /\ NoGraph
    /\ ret = NoCall

\* write_nodes_to_yaml(nodes, output_path, update_nodes,
\* prevent_file_overwrite) on the file at the output path; input keeps the
\* arguments of the call.
WriteNodesToYaml ==
    /\ ret.op = "none"
    /\ \E update_nodes \in BOOLEAN, prevent_file_overwrite \in BOOLEAN :
          LET written == write_nodes_to_yaml(input.nodes, file, update_nodes,
                                             prevent_file_overwrite)
          IN  /\ input' = [input EXCEPT
                             !.update_nodes = update_nodes,
                             !.prevent_file_overwrite = prevent_file_overwrite]
              /\ file' = written.file
              /\ ret' = [NoCall EXCEPT !.op = "write_nodes_to_yaml",
                                       !.result = written.result]
    /\ UNCHANGED <<self_nodes, self_connections, graph>>

NextWriter ==
    \/ WriteNodesToYaml
    \/ Return

SpecWriter == InitWriter /\ [][NextWriter]_vars

\* A step that is a call of write_nodes_to_yaml in append mode, or in update
\* mode, on a file that exists.
AppendStep ==
    /\ ret'.op = "write_nodes_to_yaml"
    /\ file.exists
    /\ ~input'.update_nodes /\ ~input'.prevent_file_overwrite

UpdateStep ==
    /\ ret'.op = "write_nodes_to_yaml"
    /\ file.exists
    /\ input'.update_nodes

NotInFile(node) == node.id \notin file_ids(file.nodes)

ItemsOf(v) == IF v.kind = "list" THEN v.items ELSE <<>>

IsPrefix(s, t) == Len(s) <= Len(t) /\ SubSeq(t, 1, Len(s)) = s

RECURSIVE SumOver(_, _)
SumOver(f, n) == IF n = 0 THEN 0 ELSE f[n] + SumOver(f, n - 1)

\* The change update mode may make to a node of the file: a null data_type
\* or data_level filled, select_from entries that were not there appended,
\* and nothing else.
FilledOnly(old, new) ==
    /\ new.id = old.id
    /\ new.label = old.label
    /\ new.data_type = old.data_type \/ is_none(old.data_type)
    /\ new.data_level = old.data_level \/ is_none(old.data_level)
    /\ \/ new.select_from = old.select_from
       \/ /\ new.select_from.kind = "list"
          /\ IsPrefix(ItemsOf(old.select_from), new.select_from.items)
          /\ Len(new.select_from.items) > Len(ItemsOf(old.select_from))
          /\ \A j \in (Len(ItemsOf(old.select_from)) + 1)..Len(new.select_from.items) :
                \A k \in 1..(j - 1) :
                    new.select_from.items[k] # new.select_from.items[j]

\* C22: write_nodes_to_yaml with update_nodes=True keeps every node of the
\* file in place and changes it only by filling a null data_type or
\* data_level and by appending select_from entries not yet present, never
\* touching a label or a non-null data_type or data_level; it appends the
\* nodes with new ids; nodes_updated is the number of nodes of the file that
\* were changed and connections_added the number of entries appended.
C22_UpdateModeFillsOnly ==
    [][UpdateStep =>
          LET n == Len(file.nodes)
          IN  /\ ret'.result.raised = ""
              /\ Len(file'.nodes) >= n
              /\ \A k \in 1..n : FilledOnly(file.nodes[k], file'.nodes[k])
              /\ \A k \in (n + 1)..Len(file'.nodes) :
                    file'.nodes[k].id \notin file_ids(file.nodes)
              /\ ret'.result.value.nodes_updated
                   = Cardinality({k \in 1..n : file'.nodes[k] # file.nodes[k]})
              /\ ret'.result.value.connections_added
                   = SumOver([k \in 1..n |->
                                Len(ItemsOf(file'.nodes[k].select_from))
                                  - Len(ItemsOf(file.nodes[k].select_from))],
                             n)]_vars

\* C29: a call of write_nodes_to_yaml in append mode or in update mode, with
\* any list of input nodes, on a file whose node ids are pairwise distinct
\* leaves a file whose node ids are pairwise distinct.
C29_FileIdsStayDistinct ==
    [][((AppendStep \/ UpdateStep) /\ distinct_ids(file.nodes))
          => distinct_ids(file'.nodes)]_vars

\* ---------------------------------------------------------------------
\* impute_missing_connecting_nodes (missing_nodes.py) and the command that
\* calls it.  `input` is the document at input_path, `file` the document at
\* output_path.
\* ---------------------------------------------------------------------

\* A YAML document: the key "nodes" missing, null, or a list of records.
ImputeDocument(nodes_key, nodes) == [nodes_key |-> nodes_key, nodes |-> nodes]

ImputeDocuments ==
    {ImputeDocument("absent", <<>>), ImputeDocument("null", <<>>)}
        \cup {ImputeDocument("list", nodes) : nodes \in NodesData}

\* create_missing_node without the key "id".
create_missing_node_without_id(node_id) ==
    [kind |-> "dict", has_id |-> FALSE, id |-> "", label |-> node_id,
     data_level |-> NullValue, data_type |-> NullValue,
     select_from |-> List(<<>>)]

create_missing_node(node_id) ==
    [kind |-> "dict", has_id |-> TRUE, id |-> node_id, label |-> node_id,
     data_level |-> NullValue, data_type |-> NullValue,
     select_from |-> List(<<>>)]

ImputationStats(nodes_added, missing_node_ids) ==
    [nodes_added |-> nodes_added, missing_node_ids |-> missing_node_ids]

\* The loop "for node_id in missing_ids" of impute_missing_connecting_nodes.
RECURSIVE impute_loop(_, _, _, _)
impute_loop(data_nodes, missing_ids, stats, k) ==
    IF k > Len(missing_ids) THEN [nodes |-> data_nodes, stats |-> stats]
    ELSE impute_loop(Append(data_nodes, create_missing_node(missing_ids[k])),
                     missing_ids,
                     ImputationStats(stats.nodes_added + 1,
                                     Append(stats.missing_node_ids,
                                            missing_ids[k])),
                     k + 1)

\* impute_missing_connecting_nodes(input_path, output_path): the value
\* returned or the exception raised, and the document left at output_path.
impute_missing_connecting_nodes(data, output_path) ==
    IF data.nodes_key # "list" \/ data.nodes = <<>>
    THEN [result |-> Ok(ImputationStats(0, <<>>)), file |-> output_path]
    ELSE LET missing_ids == find_missing_node_ids(data.nodes)
         IN  IF missing_ids.raised # ""
             THEN [result |-> Raise(missing_ids.raised,
                                    ImputationStats(0, <<>>)),
                   file   |-> output_path]
             ELSE LET done == impute_loop(data.nodes, missing_ids.value,
                                          ImputationStats(0, <<>>), 1)
                  IN  [result |-> Ok(done.stats),
                       file   |-> [exists |-> TRUE, nodes |-> done.nodes]]

InitImpute ==
    /\ input \in ImputeDocuments
    /\ file = NoFile
    /\ NoGraph
    /\ ret = NoCall

\* impute_missing_connecting_nodes input.yaml -o output.yaml
ImputeToOutput ==
    /\ ret.op = "none"
    /\ LET imputed == impute_missing_connecting_nodes(input, file)
       IN  /\ file' = imputed.file
           /\ ret' = [NoCall EXCEPT !.op = "impute_missing_connecting_nodes",
                                    !.direction = "output",
                                    !.result = imputed.result]
    /\ UNCHANGED <<self_nodes, self_connections, graph, input>>

\* impute_missing_connecting_nodes output.yaml: a run in place on the
\* document an earlier run wrote.
ImputeInPlace ==
    /\ ret.op = "none"
    /\ file.exists
    /\ LET imputed == impute_missing_connecting_nodes(
                          ImputeDocument("list", file.nodes), file)
       IN  /\ file' = imputed.file
           /\ ret' = [NoCall EXCEPT !.op = "impute_missing_connecting_nodes",
                                    !.direction = "in_place",
                                    !.result = imputed.result]
    /\ UNCHANGED <<self_nodes, self_connections, graph, input>>

NextImpute == ImputeToOutput \/ ImputeInPlace \/ Return

SpecImpute == InitImpute /\ [][NextImpute]_vars

\* A step that is a run of the imputer from the input document to a
\* separate output, and one that is a run in place, that returned.
ImputeStep ==
    /\ ret'.op = "impute_missing_connecting_nodes"
    /\ ret'.direction = "output"
    /\ ret'.result.raised = ""

SecondImputeStep ==
    /\ ret'.op = "impute_missing_connecting_nodes"
    /\ ret'.direction = "in_place"
    /\ ret'.result.raised = ""

Placeholders(missing_ids) ==
    [k \in 1..Len(missing_ids) |->
        [kind |-> "dict", has_id |-> TRUE, id |-> missing_ids[k],
         label |-> missing_ids[k], data_level |-> NullValue,
         data_type |-> NullValue, select_from |-> List(<<>>)]]

\* C23: for every input document, when impute_missing_connecting_nodes
\* returns, the output document has been written, its nodes list is the
\* nodes list of the input followed by one placeholder per id of
\* find_missing_node_ids, in that order, and nodes_added is the number of
\* placeholders.
C23_OutputIsInputPlusPlaceholders ==
    [][ImputeStep =>
          LET missing_ids == find_missing_node_ids(input.nodes).value
          IN  /\ file'.exists
              /\ file'.nodes = input.nodes \o Placeholders(missing_ids)
              /\ ret'.result.value.nodes_added = Len(missing_ids)]_vars

\* C26: the nodes list a run of the imputer writes has no missing node id,
\* and a second run on it adds no node and leaves the list as it is.
C26_ImputationIsFixpoint ==
    [][/\ (ImputeStep /\ file'.exists)
            => find_missing_node_ids(file'.nodes) = Ok(<<>>)
       /\ SecondImputeStep
            => /\ file' = file
               /\ ret'.result.value = ImputationStats(0, <<>>)]_vars

C26_Witness ==
    /\ ret.op = "impute_missing_connecting_nodes"
    /\ ret.direction = "in_place"
    /\ ret.result = Ok(ImputationStats(0, <<>>))
    /\ find_missing_node_ids(input.nodes).value # <<>>
    /\ Len(file.nodes) > Len(input.nodes)

\* The records of an imputed document as the loader reads them.
AsDocNodes(nodes) ==
    [k \in 1..Len(nodes) |->
        DocNode(nodes[k].id, nodes[k].select_from, AbsentValue)]

LoaderAccepts(nodes) ==
    \A k \in 1..Len(nodes) : nodes[k].kind = "dict" /\ nodes[k].has_id

\* C27: after the imputer has run on a document without a connections list,
\* every connection the loader derives from select_from has its from_id and
\* its to_id among the ids of the declared nodes, whatever form select_from
\* has: a list of strings, a single string, or mappings {id: ...}.
C27_LoadedConnectionsAreDeclared ==
    (/\ ret.op = "impute_missing_connecting_nodes"
     /\ ret.result.raised = ""
     /\ file.exists
     /\ LoaderAccepts(file.nodes))
        => LET loaded == load_lineage_file(
                             [nodes |-> AsDocNodes(file.nodes),
                              has_connections |-> FALSE])
               declared == {loaded.nodes[k].id : k \in 1..Len(loaded.nodes)}
           IN  \A k \in 1..Len(loaded.connections) :
                   /\ loaded.connections[k].from_id \in declared
                   /\ loaded.connections[k].to_id \in declared

\* ---------------------------------------------------------------------
\* MermaidGenerator (mermaid.py) with the tables of styles.py.  `input` is
\* what the generator was constructed with, `file` the diagram last
\* generated, a line per element.
\* ---------------------------------------------------------------------
MaxMermaidNodes == 2
MaxMermaidConns == 2

MermaidIds == {"a", "a-b", "b"}
MermaidLevels == {"base", "fact"}
MermaidTypes == {"table", "view"}

MermaidNode(i, data_type, data_level) ==
    [id |-> i, label |-> i, data_type |-> data_type, data_level |-> data_level]

MermaidConnection(f, t, connection_type) ==
    [from_id |-> f, to_id |-> t, connection_type |-> connection_type]

MermaidNodeLists ==
    SeqUpTo({MermaidNode(i, "table", l) : i \in MermaidIds, l \in MermaidLevels}
                \cup {MermaidNode("a", "view", "base")},
            MaxMermaidNodes)

MermaidConnLists ==
    SeqUpTo({MermaidConnection(c[1], c[2], t) :
                c \in {<<"a", "b">>, <<"a-b", "a">>},
                t \in {"select_from", "connected_to"}},
            MaxMermaidConns)

NODE_SHAPES ==
    [table |-> <<"[", "]">>, view |-> <<"([", "])">>, unknown |-> <<"[", "]">>]

DATA_LEVEL_STYLES ==
    [base |-> "fill:#f3e5f5,stroke:#4a148c,stroke-width:2px",
     fact |-> "fill:#fce4ec,stroke:#880e4f,stroke-width:3px"]

CONNECTION_STYLES == [select_from |-> "-->", connected_to |-> "---"]

\* The order of Python's string comparison on the ids and levels in use.
IdRank == [i \in MermaidIds |-> CASE i = "a" -> 1 [] i = "a-b" -> 2 [] i = "b" -> 3]
LevelRank == [l \in MermaidLevels |-> IF l = "base" THEN 1 ELSE 2]

\* node_id.replace("-", "_").replace(".", "_").replace(" ", "_")
sanitize_id(node_id) == IF node_id = "a-b" THEN "a_b" ELSE node_id

\* A line of the diagram: what it is, the ids it names, its other parts.
Line(kind, ids, text) == [kind |-> kind, ids |-> ids, text |-> text]
BlankLine == Line("", <<>>, <<>>)

generate_node_definition(node) ==
    Line("node", <<sanitize_id(node.id)>>,
         <<NODE_SHAPES[node.data_type][1], node.label,
           NODE_SHAPES[node.data_type][2]>>)

generate_connection_definition(connection) ==
    Line("connection",
         <<sanitize_id(connection.from_id), sanitize_id(connection.to_id)>>,
         <<CONNECTION_STYLES[connection.connection_type]>>)

\* sorted(seq, key=...): a stable sort, an element going behind the ones
\* whose key is not larger.
RECURSIVE insert_sorted(_, _, _, _)
insert_sorted(done, x, rank, k) ==
    IF k > Len(done) \/ rank[x] < rank[done[k]]
    THEN SubSeq(done, 1, k - 1) \o <<x>> \o SubSeq(done, k, Len(done))
    ELSE insert_sorted(done, x, rank, k + 1)

RECURSIVE sorted_loop(_, _, _, _)
sorted_loop(seq, rank, done, k) ==
    IF k > Len(seq) THEN done
    ELSE sorted_loop(seq, rank, insert_sorted(done, seq[k], rank, 1), k + 1)

sorted(seq, rank) == sorted_loop(seq, rank, <<>>, 1)

node_key == [n \in {MermaidNode(i, t, l) : i \in MermaidIds, t \in MermaidTypes,
                                           l \in MermaidLevels} |-> IdRank[n.id]]

connection_key ==
    [c \in {MermaidConnection(f, t, ct) : f \in MermaidIds, t \in MermaidIds,
                                          ct \in {"select_from", "connected_to"}}
        |-> 4 * IdRank[c.from_id] + IdRank[c.to_id]]

\* sorted(data_levels): the levels of a set, whatever order the set is
\* iterated in, in ascending order.
sorted_levels(levels) ==
    sorted((IF "fact" \in levels THEN <<"fact">> ELSE <<>>)
               \o (IF "base" \in levels THEN <<"base">> ELSE <<>>),
           LevelRank)

generate_class_definitions(nodes) ==
    LET levels == sorted_levels({nodes[k].data_level : k \in 1..Len(nodes)})
    IN  [k \in 1..Len(levels) |->
            Line("classDef", <<>>, <<levels[k], DATA_LEVEL_STYLES[levels[k]]>>)]

\* level_groups[level]: the sanitized ids of the nodes of a level, in the
\* order of self.nodes.
RECURSIVE level_group(_, _, _)
level_group(nodes, level, k) ==
    IF k > Len(nodes) THEN <<>>
    ELSE (IF nodes[k].data_level = level THEN <<sanitize_id(nodes[k].id)>>
          ELSE <<>>) \o level_group(nodes, level, k + 1)

generate_class_assignments(nodes) ==
    LET levels == sorted_levels({nodes[k].data_level : k \in 1..Len(nodes)})
    IN  [k \in 1..Len(levels) |->
            Line("class", level_group(nodes, levels[k], 1), <<levels[k]>>)]

\* MermaidGenerator(nodes, connections, direction).generate(): the lines
\* that generate() joins with "\n".
generate(nodes, connections, direction) ==
    LET sorted_nodes == sorted(nodes, node_key)
        sorted_connections == sorted(connections, connection_key)
        class_defs == generate_class_definitions(nodes)
    IN  <<Line("graph", <<>>, <<direction>>)>>
        \o [k \in 1..Len(sorted_nodes) |->
               generate_node_definition(sorted_nodes[k])]
        \o <<BlankLine>>
        \o [k \in 1..Len(sorted_connections) |->
               generate_connection_definition(sorted_connections[k])]
        \o <<BlankLine>>
        \o class_defs
        \o (IF class_defs # <<>> THEN <<BlankLine>> ELSE <<>>)
        \o generate_class_assignments(nodes)

InitMermaid ==
    /\ input \in [nodes : MermaidNodeLists, connections : MermaidConnLists,
                  direction : {"LR"}]
    /\ file = NoFile
    /\ NoGraph
    /\ ret = NoCall

Generate ==
    /\ ret.op = "none"
    /\ LET lines == generate(input.nodes, input.connections, input.direction)
       IN  /\ file' = [exists |-> TRUE, nodes |-> lines]
           /\ ret' = [NoCall EXCEPT !.op = "generate", !.result = Ok(lines)]
    /\ UNCHANGED <<self_nodes, self_connections, graph, input>>

Swap(seq, j) == [seq EXCEPT ![j] = seq[j + 1], ![j + 1] = seq[j]]

\* The caller lists the same nodes, or the same connections, in another
\* order.
PermuteNodes ==
    /\ ret.op = "none"
    /\ \E j \in 1..(Len(input.nodes) - 1) :
          input' = [input EXCEPT !.nodes = Swap(@, j)]
    /\ UNCHANGED <<self_nodes, self_connections, graph, ret, file>>

PermuteConnections ==
    /\ ret.op = "none"
    /\ \E j \in 1..(Len(input.connections) - 1) :
          input' = [input EXCEPT !.connections = Swap(@, j)]
    /\ UNCHANGED <<self_nodes, self_connections, graph, ret, file>>

NextMermaid == Generate \/ PermuteNodes \/ PermuteConnections \/ Return

SpecMermaid == InitMermaid /\ [][NextMermaid]_vars

\* C30: generate() does not depend on the order of its inputs: the diagram
\* generated after the node list and the connection list were permuted is,
\* line for line, the diagram generated before.
C30_GenerateIsOrderIndependent ==
    [][(ret'.op = "generate" /\ file.exists) => file'.nodes = file.nodes]_vars

\* ---------------------------------------------------------------------
\* mmd_generate_command (cli.py), a step per stage of the command: the
\* focus ids are validated, the graph is built, the graph is filtered, the
\* diagram is written.  `input` is the loaded lineage and the --focus
\* option, a string being the sequence of its characters; ret.op is the
\* stage the command has reached.
\* ---------------------------------------------------------------------
MaxCmdNodes == 2
MaxCmdConns == 1
MaxFocusChars == 3

CmdIds == {"a", "b"}
FocusChars == CmdIds \cup {",", " "}

\* --focus: not given, or a string.
NoFocus == [given |-> FALSE, chars |-> <<>>]
FocusOptions ==
    {NoFocus}
        \cup {[given |-> TRUE, chars |-> chars] :
                 chars \in SeqUpTo(FocusChars, MaxFocusChars)}

CmdNodeLists ==
    SeqUpTo({MermaidNode(i, "table", "base") : i \in CmdIds}, MaxCmdNodes)
CmdConnLists ==
    SeqUpTo({MermaidConnection("a", "b", "select_from")}, MaxCmdConns)

\* focus.split(",")
RECURSIVE split_loop(_, _, _)
split_loop(chars, current, k) ==
    IF k > Len(chars) THEN <<current>>
    ELSE IF chars[k] = ","
    THEN <<current>> \o split_loop(chars, <<>>, k + 1)
    ELSE split_loop(chars, Append(current, chars[k]), k + 1)

split(chars) == split_loop(chars, <<>>, 1)

\* node_id.strip()
RECURSIVE lstrip(_)
lstrip(chars) ==
    IF chars # <<>> /\ chars[1] = " " THEN lstrip(Tail(chars)) ELSE chars

RECURSIVE rstrip(_)
rstrip(chars) ==
    IF chars # <<>> /\ chars[Len(chars)] = " "
    THEN rstrip(SubSeq(chars, 1, Len(chars) - 1))
    ELSE chars

strip(chars) == lstrip(rstrip(chars))

\* [node_id.strip() for node_id in focus.split(",")]
focus_node_ids_of(chars) ==
    LET parts == split(chars) IN [k \in 1..Len(parts) |-> strip(parts[k])]

\* {node.id for node in nodes}, an id being the string of its characters.
node_ids_of(nodes) == {<<nodes[k].id>> : k \in 1..Len(nodes)}

\* The validation loop looking at the first focus id only.
first_missing_focus_first_only(focus_node_ids, node_ids, k) ==
    IF k > Len(focus_node_ids) \/ k > 1 THEN <<>>
    ELSE IF focus_node_ids[k] \notin node_ids THEN <<focus_node_ids[k]>>
    ELSE <<>>

\* "for focus_node_id in focus_node_ids: if focus_node_id not in node_ids":
\* the first focus id that is not declared, if there is one.
RECURSIVE first_missing_focus(_, _, _)
first_missing_focus(focus_node_ids, node_ids, k) ==
    IF k > Len(focus_node_ids) THEN <<>>
    ELSE IF focus_node_ids[k] \notin node_ids THEN <<focus_node_ids[k]>>
    ELSE first_missing_focus(focus_node_ids, node_ids, k + 1)

Exit(exit_code, reported) == [exit_code |-> exit_code, reported |-> reported]

InitCommand ==
    /\ input \in [nodes : CmdNodeLists, connections : CmdConnLists,
                  focus : FocusOptions]
    /\ file = NoFile
    /\ NoGraph
    /\ ret = NoCall

\* Lines 84-100: the file is loaded and the focus ids are checked against
\* the ids of the nodes; sys.exit(1) at the first one that is not declared.
ValidateFocus ==
    /\ ret.op = "none"
    /\ file = NoFile
    /\ IF input.focus.given /\ input.focus.chars # <<>>
       THEN LET focus_node_ids == focus_node_ids_of(input.focus.chars)
                missing == first_missing_focus(focus_node_ids,
                                               node_ids_of(input.nodes), 1)
            IN  IF missing # <<>>
                THEN ret' = [NoCall EXCEPT
                               !.op = "mmd_generate_command",
                               !.result = Raise("SystemExit",
                                                Exit(1, missing[1]))]
                ELSE ret' = [NoCall EXCEPT
                               !.op = "focus_validated",
                               !.focus_node_ids = focus_node_ids]
       ELSE ret' = [NoCall EXCEPT !.op = "no_focus"]
    /\ UNCHANGED <<self_nodes, self_connections, graph, input, file>>

\* Line 103: graph = LineageGraph(nodes, connections)
BuildGraph ==
    /\ ret.op = "focus_validated"
    /\ self_nodes' = nodes_by_id(input.nodes)
    /\ self_connections' = input.connections
    /\ graph' = build_graph(input.nodes, input.connections)
    /\ ret' = [ret EXCEPT !.op = "graph_built"]
    /\ UNCHANGED <<input, file>>

\* Lines 105-112: get_direct_subgraph or get_subgraph, handed the focus
\* ids, each the one character of a declared id; an exception is reported
\* and the command exits with status 1 (lines 131-139).
FilterGraph ==
    /\ ret.op = "graph_built"
    /\ \E direct_only \in BOOLEAN, filter_direction \in FilterDirection,
          depth \in Depths :
          LET focus_node_ids == [k \in 1..Len(ret.focus_node_ids) |->
                                    ret.focus_node_ids[k][1]]
              filtered == IF direct_only
                          THEN get_direct_subgraph(Self, focus_node_ids)
                          ELSE get_subgraph(Self, focus_node_ids,
                                            filter_direction, depth)
          IN  IF filtered.raised # ""
              THEN ret' = [NoCall EXCEPT
                             !.op = "mmd_generate_command",
                             !.result = Raise(filtered.raised, Exit(1, <<>>))]
              ELSE ret' = [ret EXCEPT !.op = "filtered",
                                      !.direction = filter_direction,
                                      !.max_depth = depth,
                                      !.result = filtered]
    /\ UNCHANGED <<self_nodes, self_connections, graph, input, file>>

\* The lists of a set, in any order.
ListsOf(S) ==
    {l \in [1..Cardinality(S) -> S] : \A x \in S : \E k \in DOMAIN l : l[k] = x}

\* Lines 114-129: the diagram of the loaded lineage, or of the filtered one
\* in whatever order the graph hands its nodes and edges back, is written.
WriteDiagram ==
    /\ ret.op \in {"no_focus", "filtered"}
    /\ \E nodes \in IF ret.op = "no_focus" THEN {input.nodes}
                    ELSE ListsOf(ret.result.value.nodes),
          connections \in IF ret.op = "no_focus" THEN {input.connections}
                          ELSE ListsOf({self_connections[k] :
                                          k \in ret.result.value.connections}) :
          file' = [exists |-> TRUE,
                   nodes  |-> generate(nodes, connections, "LR")]
    /\ ret' = [NoCall EXCEPT !.op = "mmd_generate_command",
                             !.result = Ok(Exit(0, <<>>))]
    /\ UNCHANGED <<self_nodes, self_connections, graph, input>>

NextCommand == ValidateFocus \/ BuildGraph \/ FilterGraph \/ WriteDiagram

SpecCommand == InitCommand /\ [][NextCommand]_vars

\* A focus id of the --focus value is not the id of a declared node.
UndeclaredFocus ==
    /\ input.focus.given
    /\ input.focus.chars # <<>>
    /\ \E k \in 1..Len(focus_node_ids_of(input.focus.chars)) :
          focus_node_ids_of(input.focus.chars)[k] \notin node_ids_of(input.nodes)

FirstUndeclaredFocus ==
    LET focus_node_ids == focus_node_ids_of(input.focus.chars)
        k == CHOOSE k \in 1..Len(focus_node_ids) :
                /\ focus_node_ids[k] \notin node_ids_of(input.nodes)
                /\ \A j \in 1..(k - 1) :
                      focus_node_ids[j] \in node_ids_of(input.nodes)
    IN  focus_node_ids[k]

\* C24: when one of the comma-separated ids of a --focus value is not the
\* id of a declared node, the command goes from its start straight to exit
\* status 1, reporting that id: it never reaches the stage where the graph
\* is built or the one where it is filtered, the graph stays unbuilt, and
\* no diagram is written.
C24_UndeclaredFocusExitsEarly ==
    UndeclaredFocus
        => /\ \/ ret.op = "none"
              \/ /\ ret.op = "mmd_generate_command"
                 /\ ret.result
                      = Raise("SystemExit", Exit(1, FirstUndeclaredFocus))
           /\ NoGraph
           /\ file = NoFile

C24_Witness ==
    /\ ret.op = "mmd_generate_command"
    /\ ret.result.raised = "SystemExit"
    /\ input.nodes # <<>>
    /\ LET focus_node_ids == focus_node_ids_of(input.focus.chars)
       IN  /\ Len(focus_node_ids) = 2
           /\ focus_node_ids[1] \in node_ids_of(input.nodes)
           /\ focus_node_ids[2] \notin node_ids_of(input.nodes)

\* ---------------------------------------------------------------------
\* Upstream and downstream as each other's dual.
\* ---------------------------------------------------------------------

\* The two traversal queries alone, on every graph of Init.
NextDual == GetUpstreamNodes \/ GetDownstreamNodes \/ Return

SpecDual == Init /\ [][NextDual]_vars

\* C28: for distinct ids a and b of the graph and every depth d, unlimited
\* included, a is in get_upstream_nodes(b, d) exactly when b is in
\* get_downstream_nodes(a, d).
C28_UpstreamDownstreamDual ==
    (ret.op = "get_upstream_nodes" /\ in_graph(graph, ret.node_id))
        => \A a \in graph.nodes \ {ret.node_id} :
              a \in ret.result.value
                <=> ret.node_id
                      \in get_downstream_nodes(graph, a, ret.max_depth).value

C28_Witness ==
    /\ ret.op = "get_upstream_nodes"
    /\ ret.max_depth = <<1>>
    /\ \E a \in ret.result.value :
          ret.node_id \in get_downstream_nodes(graph, a, <<1>>).value
    /\ \E a \in ancestors(graph, ret.node_id).value : a \notin ret.result.value

\* ---------------------------------------------------------------------
\* The depth-bounded search of get_upstream_nodes and get_downstream_nodes
\* (lineage_graph.py:72-88, 109-125), an iteration of the while loop per
\* step.  `input` holds the locals of the call and the log of what was put
\* on the queue; ret.op is "bfs_loop" while the loop runs.
\* ---------------------------------------------------------------------
MaxBfsConns == 3
MaxBfsDepth == 2

BfsEdges ==
    {Connection(c[1], c[2]) :
        c \in {<<"a", "a">>, <<"a", "b">>, <<"b", "a">>, <<"a", "c">>,
               <<"b", "c">>, <<"c", "a">>}}

BfsNodeLists == {<<>>, <<Node("a"), Node("b"), Node("c")>>}
BfsConnLists == SeqUpTo(BfsEdges, MaxBfsConns)
BfsDepths == (0 - 1)..MaxBfsDepth

NoBfs == [visited |-> {}, found |-> {}, queue |-> <<>>, enqueued |-> <<>>]

\* One iteration of the while loop that puts every neighbour on the queue,
\* visited or not.
bfs_iteration_revisit(adj, max_depth, st) ==
    LET current == Head(st.queue)[1]
        depth   == Head(st.queue)[2]
        popped  == [visited |-> st.visited, found |-> st.found,
                    queue |-> Tail(st.queue)]
        after   == IF depth >= max_depth THEN popped
                   ELSE bfs_neighbours(adj[current], depth,
                                       [popped EXCEPT !.visited = {}], 1)
    IN  [visited  |-> after.visited,
         found    |-> after.found,
         queue    |-> after.queue,
         enqueued |-> st.enqueued
                        \o [k \in 1..(Len(after.queue) - Len(popped.queue)) |->
                               after.queue[Len(popped.queue) + k][1]]]

\* One iteration of the while loop: queue.pop(0), "continue" at the depth
\* limit, the for loop over the neighbours otherwise.
bfs_iteration(adj, max_depth, st) ==
    LET current == Head(st.queue)[1]
        depth   == Head(st.queue)[2]
        popped  == [visited |-> st.visited, found |-> st.found,
                    queue |-> Tail(st.queue)]
        after   == IF depth >= max_depth THEN popped
                   ELSE bfs_neighbours(adj[current], depth, popped, 1)
    IN  [visited  |-> after.visited,
         found    |-> after.found,
         queue    |-> after.queue,
         enqueued |-> st.enqueued
                        \o [k \in 1..(Len(after.queue) - Len(popped.queue)) |->
                               after.queue[Len(popped.queue) + k][1]]]

InitTraversal ==
    /\ \E nodes \in BfsNodeLists, connections \in BfsConnLists :
          /\ self_nodes = nodes_by_id(nodes)
          /\ self_connections = connections
          /\ graph = build_graph(nodes, connections)
    /\ ret = NoCall
    /\ input = NoBfs
    /\ file = NoFile

\* The call up to the while loop: an id that is not in the graph returns
\* the empty set at once.
StartTraversal ==
    /\ ret.op = "none"
    /\ \E node_id \in Ids, max_depth \in BfsDepths,
          direction \in {"upstream", "downstream"} :
          IF ~in_graph(graph, node_id)
          THEN /\ ret' = [NoCall EXCEPT
                            !.op = "get_" \o direction \o "_nodes",
                            !.node_id = node_id,
                            !.max_depth = <<max_depth>>,
                            !.direction = direction,
                            !.result = Ok({})]
               /\ input' = NoBfs
          ELSE /\ ret' = [NoCall EXCEPT !.op = "bfs_loop",
                                        !.node_id = node_id,
                                        !.max_depth = <<max_depth>>,
                                        !.direction = direction]
               /\ input' = [visited  |-> bfs_start(node_id).visited,
                            found    |-> bfs_start(node_id).found,
                            queue    |-> bfs_start(node_id).queue,
                            enqueued |-> <<node_id>>]
    /\ UNCHANGED <<self_nodes, self_connections, graph, file>>

BfsIteration ==
    /\ ret.op = "bfs_loop"
    /\ input.queue # <<>>
    /\ input' = bfs_iteration(IF ret.direction = "upstream" THEN graph.pred
                              ELSE graph.succ,
                              ret.max_depth[1], input)
    /\ UNCHANGED <<self_nodes, self_connections, graph, ret, file>>

\* "while queue" is false: the set found is returned.
FinishTraversal ==
    /\ ret.op = "bfs_loop"
    /\ input.queue = <<>>
    /\ ret' = [ret EXCEPT !.op = "get_" \o ret.direction \o "_nodes",
                          !.result = Ok(input.found)]
    /\ UNCHANGED <<self_nodes, self_connections, graph, input, file>>

NextTraversal == StartTraversal \/ BfsIteration \/ FinishTraversal

\* The loop is sequential code: an iteration that can run does run.
SpecTraversal ==
    /\ InitTraversal
    /\ [][NextTraversal]_vars
    /\ WF_vars(BfsIteration)
    /\ WF_vars(FinishTraversal)

OncePerVertex(log) == \A j, k \in 1..Len(log) : j # k => log[j] # log[k]

\* C25: the depth-bounded search of get_upstream_nodes and
\* get_downstream_nodes ends on every finite graph, cycles and self-loops
\* included, and by the time it ends no vertex has been put on the queue
\* more than once in the call.
C25_SearchEndsEachVertexQueuedOnce ==
    (ret.op = "bfs_loop")
        ~> (ret.op # "bfs_loop" /\ OncePerVertex(input.enqueued))

C25_Witness ==
    /\ ret.op = "get_downstream_nodes"
    /\ ret.max_depth = <<2>>
    /\ Len(input.enqueued) = 3
    /\ "a" \in SeqToSet(graph.succ["a"])
    /\ \E v \in Ids \ {ret.node_id} :
          Cardinality({u \in SeqToSet(input.enqueued) :
                          v \in SeqToSet(graph.succ[u])}) >= 2

====
